---- MODULE Spec2Model ----
(***************************************************************************)
(* Model of the data-transformation layer of the NSIA bond dashboard       *)
(* (src/utils/data_loader.py).                                             *)
(*                                                                         *)
(* Reconciliation engine: build_reconciliation_master joins the budget     *)
(* table (load_expense_reconciliation) with the expense-flow table         *)
(* (load_expense_flow) by mapped category and classifies every line.       *)
(*                                                                         *)
(* Variance alerts: compute_variance_alerts classifies the lines of the    *)
(* revenue and expense reconciliation sheets (SpecAlerts).  Scorecard:     *)
(* compute_cscg_scorecard checks payments against the contract terms       *)
(* (SpecScorecard).  Journal entries: load_proposed_entries drops heading  *)
(* rows and forward-fills Num, Date, Memo (SpecEntries).  Dollar cells:    *)
(* _clean_dollar parses one Cost / $$ cell (SpecDollar).  Each             *)
(* specification moves the variables of its own component only.            *)
(*                                                                         *)
(* Conventions.  A spreadsheet amount is an optional number: NaN (a        *)
(* missing cell, what pd.to_numeric(errors="coerce") leaves) is the empty  *)
(* sequence and the number v is <<v>>.  Amounts are whole dollars.  A      *)
(* Python None in an output cell is None, again the empty sequence.        *)
(***************************************************************************)
EXTENDS Integers, Sequences, FiniteSets, TLC

VARIABLES
    budget,   \* table returned by load_expense_reconciliation()
    flow,     \* table returned by load_expense_flow()
    recon,    \* outcome of the last call of build_reconciliation_master()
    pc,       \* "edit": the sheets are being maintained; "viewed": page rendered
    rev,      \* variance columns of load_revenue_reconciliation()
    exp,      \* variance columns of load_expense_reconciliation()
    threshold,\* slider of the Variance Alerts page, in percent
    alerts,   \* outcome of the last call of compute_variance_alerts()
    cscg,     \* table returned by load_cscg_relationship()
    scorecard,\* outcome of the last call of compute_cscg_scorecard()
    sheet,    \* raw rows of the "Proposed Entries" sheet
    entries,  \* outcome of the last call of load_proposed_entries()
    cell,     \* a Cost / $$ cell handed to _clean_dollar
    amount,   \* outcome of the last call of _clean_dollar()
    again,    \* outcome of _clean_dollar(str(x)) for the number x in amount
    grid,     \* shape of the sheet a fixed-offset loader reads
    loaded,   \* outcome of the last call of a fixed-offset loader
    cache,    \* st.cache_data entries of the reconciliation functions
    term,     \* a contract term handed to check_compliance
    status,   \* outcome of the last call of check_compliance()
    hidden,   \* table returned by load_hidden_cash_flows()
    kpis      \* outcome of the last call of compute_kpis()

reconVars == <<budget, flow, recon>>
alertVars == <<rev, exp, threshold, alerts>>
scoreVars == <<cscg, scorecard>>
entryVars == <<sheet, entries>>
dollarVars == <<cell, amount, again>>
gridVars == <<grid, loaded>>
cacheVars == <<cache>>
termVars == <<term, status>>
kpiVars == <<hidden, kpis>>

vars == <<budget, flow, recon, pc, alertVars, scoreVars, entryVars, dollarVars,
         gridVars, cacheVars, termVars, kpiVars>>

----------------------------------------------------------------------------
(* Optional numbers *)

NaN == <<>>
None == <<>>
Num(v) == <<v>>
notna(x) == x # <<>>
isna(x) == x = <<>>
Abs(n) == IF n < 0 THEN -n ELSE n

\* float(x) if pd.notna(x) else 0
FloatOrZero(x) == IF notna(x) THEN x[1] ELSE 0

----------------------------------------------------------------------------
(* Thresholds of the status classification *)

MajorThreshold == 5000
MinorThreshold == 500

----------------------------------------------------------------------------
(* Static mapping: budget line item -> expense flow category *)

budget_to_flow ==
    [item \in {"Electric", "Gas (Nicor)", "Janitorial Supplies",
               "Insurance (Liab/Prop/D&O)", "Snowplow", "Landscaping",
               "Propane", "Building Maintenance", "Outside Consultants",
               "Legal Fees", "Cable/Internet", "Security",
               "Operation Supplies", "Office Payroll", "Operations Payroll",
               "Workers Comp Insurance", "Men's League Payroll",
               "Management Fees", "Land Lease", "Techny Loan Interest",
               "Interest Expense (DSRF)", "Property Taxes",
               "Trustee Admin Fee", "Scrubber Lease",
               "Scoreboard Software (Expense)", "On Ice Instruction",
               "Off Ice Instruction", "Advertising/Marketing (Youth)",
               "Youth Program Supplies"} |->
        CASE item = "Electric" -> "Electric (Engie)"
          [] item = "Janitorial Supplies" -> "Janitorial Supplies (Ramrod)"
          [] item = "Insurance (Liab/Prop/D&O)" -> "Insurance - Liab, Prop, D&O"
          [] item \in {"Snowplow", "Landscaping"} -> "Landscaping/Snow"
          [] item \in {"Outside Consultants", "Legal Fees"} -> "Auditor/Consultants"
          [] item = "Land Lease" -> "Land Lease (Techny)"
          [] item = "Interest Expense (DSRF)" -> "Bond Interest (DSRF)"
          [] item = "Trustee Admin Fee" -> "Trustee Admin Fee (UMB)"
          [] item = "Scoreboard Software (Expense)" -> "Scoreboard Software"
          [] item \in {"On Ice Instruction", "Off Ice Instruction",
                       "Advertising/Marketing (Youth)",
                       "Youth Program Supplies"} -> "Youth Programs (instruction)"
          [] OTHER -> item]

\* budget_to_flow.get(item): the mapped category, or None
MapGet(item) ==
    IF item \in DOMAIN budget_to_flow THEN <<budget_to_flow[item]>> ELSE None

----------------------------------------------------------------------------
(* Text helpers, tabulated over the cell texts the model draws from *)

\* str(cell).strip()
Strip(s) ==
    CASE s = " Electric " -> "Electric"
      [] s = "  " -> ""
      [] OTHER -> s

\* item.startswith("Total")
StartsWithTotal(s) == s \in {"Total", "Total Expenses", "Total Payroll Expenses"}

----------------------------------------------------------------------------
(* build_reconciliation_master: lookup and grouping *)

Range(s) == {s[i] : i \in 1..Len(s)}
Indices(s) == [i \in 1..Len(s) |-> i]
Max(S) == CHOOSE m \in S : \A n \in S : n <= m

\* keys of flow_lookup: the stripped category of every flow row
FlowCats(f) == {Strip(f[j].category) : j \in 1..Len(f)}

\* flow_lookup[cat]: the dict keeps the LAST row of a category (index into flow)
flow_lookup(f, cat) == Max({j \in 1..Len(f) : Strip(f[j].category) = cat})

\* Resolve without the test that passes over "Total..." and blank lines
Resolve_NoSkip(name, f) ==
    LET item == Strip(name)
        mapped == MapGet(item)
    IN  IF mapped # None /\ mapped[1] # "" /\ mapped[1] \in FlowCats(f)
        THEN [kind |-> "group", cat |-> mapped[1]]
        ELSE IF item \in FlowCats(f)
        THEN [kind |-> "group", cat |-> item]
        ELSE [kind |-> "unmatched", cat |-> ""]

\* Resolve where only an unmapped line may fall back on its own name
Resolve_NoFallback(name, f) ==
    LET item == Strip(name)
        mapped == MapGet(item)
    IN  IF StartsWithTotal(item) \/ item = ""
        THEN [kind |-> "skip", cat |-> ""]
        ELSE IF mapped # None /\ mapped[1] # "" /\ mapped[1] \in FlowCats(f)
        THEN [kind |-> "group", cat |-> mapped[1]]
        ELSE IF mapped = None /\ item \in FlowCats(f)
        THEN [kind |-> "group", cat |-> item]
        ELSE [kind |-> "unmatched", cat |-> ""]

\* Where one budget row goes: skipped, appended to flow_groups[cat], or
\* appended to unmatched_budget.
Resolve(name, f) ==
    LET item == Strip(name)
        mapped == MapGet(item)
    IN  IF StartsWithTotal(item) \/ item = ""
        THEN [kind |-> "skip", cat |-> ""]
        ELSE IF mapped # None /\ mapped[1] # "" /\ mapped[1] \in FlowCats(f)
        THEN [kind |-> "group", cat |-> mapped[1]]
        ELSE IF item \in FlowCats(f)
        THEN [kind |-> "group", cat |-> item]
        ELSE [kind |-> "unmatched", cat |-> ""]

\* keys of flow_groups in insertion order (first budget row of each category)
RECURSIVE GroupKeys(_, _, _)
GroupKeys(b, f, n) ==
    IF n = 0 THEN <<>>
    ELSE LET prev == GroupKeys(b, f, n - 1)
             r == Resolve(b[n].name, f)
         IN  IF r.kind = "group" /\ r.cat \notin Range(prev)
             THEN Append(prev, r.cat)
             ELSE prev

\* flow_groups[cat]: the budget rows (indices into budget) of the group, in order
flow_groups(b, f, cat) ==
    SelectSeq(Indices(b), LAMBDA i : Resolve(b[i].name, f) = [kind |-> "group", cat |-> cat])

\* unmatched_budget: indices of the budget rows with no flow category
unmatched_budget(b, f) ==
    SelectSeq(Indices(b), LAMBDA i : Resolve(b[i].name, f).kind = "unmatched")

\* seen_flow_cats after the group loop
seen_flow_cats(b, f) == Range(GroupKeys(b, f, Len(b)))

----------------------------------------------------------------------------
(* build_reconciliation_master: one output row *)

\* budget_val preferring the Proposal YTD Budget
budget_val_ProposalFirst(br) ==
    LET amt == IF isna(br.proposal) THEN br.cscg ELSE br.proposal
    IN  FloatOrZero(amt)

\* CSCG YTD Budget when present, else Proposal YTD Budget, else 0
budget_val(br) ==
    LET amt == IF isna(br.cscg) THEN br.proposal ELSE br.cscg
    IN  FloatOrZero(amt)

\* SumBudget with the fallback decided once for the whole group
SumBudget_GroupFallback(b, idx) ==
    LET useProposal == \E k \in 1..Len(idx) : isna(b[idx[k]].cscg)
        amt(k) == IF useProposal THEN b[idx[k]].proposal ELSE b[idx[k]].cscg
        S[k \in 0..Len(idx)] == IF k = 0 THEN 0 ELSE S[k - 1] + FloatOrZero(amt(k))
    IN  S[Len(idx)]

RECURSIVE SumBudget(_, _)
SumBudget(b, idx) ==
    IF idx = <<>> THEN 0 ELSE budget_val(b[Head(idx)]) + SumBudget(b, Tail(idx))

\* " + ".join(names)
RECURSIVE Join(_)
Join(names) ==
    IF Len(names) = 1 THEN names[1]
    ELSE names[1] \o " + " \o Join(Tail(names))

\* GroupLabel showing the bare category for a many-to-one group
GroupLabel_CategoryOnly(b, flow_cat, idx) ==
    IF Len(idx) = 1 THEN Strip(b[idx[1]].name) ELSE flow_cat

\* label of a group row
GroupLabel(b, flow_cat, idx) ==
    IF Len(idx) = 1
    THEN Strip(b[idx[1]].name)
    ELSE flow_cat \o " (" \o Join([k \in 1..Len(idx) |-> Strip(b[idx[k]].name)]) \o ")"

\* GroupStatus with the variance tests ahead of the invoice-trail test
GroupStatus_VarianceFirst(bv, av, iv) ==
    LET ba_var == av - bv
    IN  IF av = 0 /\ iv = 0 /\ bv > 0 THEN "Budget-Only"
        ELSE IF Abs(ba_var) > MajorThreshold THEN "Major Variance"
        ELSE IF Abs(ba_var) > MinorThreshold THEN "Minor Variance"
        ELSE IF iv = 0 /\ av > 0 THEN "No Invoice Trail"
        ELSE "Matched"

\* GroupStatus with inclusive thresholds
GroupStatus_Inclusive(bv, av, iv) ==
    LET ba_var == av - bv
    IN  IF av = 0 /\ iv = 0 /\ bv > 0 THEN "Budget-Only"
        ELSE IF iv = 0 /\ av > 0 THEN "No Invoice Trail"
        ELSE IF Abs(ba_var) >= MajorThreshold THEN "Major Variance"
        ELSE IF Abs(ba_var) >= MinorThreshold THEN "Minor Variance"
        ELSE "Matched"

\* status of a group row
GroupStatus(bv, av, iv) ==
    LET ba_var == av - bv
    IN  IF av = 0 /\ iv = 0 /\ bv > 0 THEN "Budget-Only"
        ELSE IF iv = 0 /\ av > 0 THEN "No Invoice Trail"
        ELSE IF Abs(ba_var) > MajorThreshold THEN "Major Variance"
        ELSE IF Abs(ba_var) > MinorThreshold THEN "Minor Variance"
        ELSE "Matched"

\* str(fr.get("Approval Method", ""))
StrApproval(a) == IF isna(a) THEN "nan" ELSE a[1]

\* The fields budget_rows and flow_row record which iterrows() entries the
\* output row was built from (indices; 0 = none).
GroupRow(b, f, flow_cat) ==
    LET idx == flow_groups(b, f, flow_cat)
        j == flow_lookup(f, flow_cat)
        fr == f[j]
        actual_val == FloatOrZero(fr.actual)
        invoice_val == FloatOrZero(fr.invoice)
        bv == IF Len(idx) = 1 THEN budget_val(b[idx[1]]) ELSE SumBudget(b, idx)
    IN  [line_item |-> GroupLabel(b, flow_cat, idx),
         budget_amount |-> bv,
         financial_actual |-> actual_val,
         invoice_total |-> invoice_val,
         ba_var |-> Num(actual_val - bv),
         ai_var |-> Num(invoice_val - actual_val),
         approval |-> <<StrApproval(fr.approval)>>,
         status |-> GroupStatus(bv, actual_val, invoice_val),
         budget_rows |-> idx,
         flow_row |-> j]

\* BudgetOnlyVariance without the None for a zero budget
BudgetOnlyVariance_Always(bv) == Num(-bv)

\* -budget_val if budget_val else None
BudgetOnlyVariance(bv) == IF bv # 0 THEN Num(-bv) ELSE None

\* BudgetOnlyRow classified by the rule of the group rows
BudgetOnlyRow_Classified(b, i) ==
    LET bv == budget_val(b[i])
    IN  [line_item |-> Strip(b[i].name),
         budget_amount |-> bv,
         financial_actual |-> 0,
         invoice_total |-> 0,
         ba_var |-> BudgetOnlyVariance(bv),
         ai_var |-> None,
         approval |-> <<"">>,
         status |-> GroupStatus(bv, 0, 0),
         budget_rows |-> <<i>>,
         flow_row |-> 0]

BudgetOnlyRow(b, i) ==
    LET bv == budget_val(b[i])
    IN  [line_item |-> Strip(b[i].name),
         budget_amount |-> bv,
         financial_actual |-> 0,
         invoice_total |-> 0,
         ba_var |-> BudgetOnlyVariance(bv),
         ai_var |-> None,
         approval |-> <<"">>,
         status |-> "Budget-Only",
         budget_rows |-> <<i>>,
         flow_row |-> 0]

\* ActualOnlyEmitted skipping on a zero actual alone
ActualOnlyEmitted_ActualZero(b, f, j) ==
    /\ Strip(f[j].category) \notin seen_flow_cats(b, f)
    /\ FloatOrZero(f[j].actual) # 0

\* a flow row not in seen_flow_cats is skipped when both amounts are zero
ActualOnlyEmitted(b, f, j) ==
    /\ Strip(f[j].category) \notin seen_flow_cats(b, f)
    /\ ~(FloatOrZero(f[j].actual) = 0 /\ FloatOrZero(f[j].invoice) = 0)

ActualOnlyRow(f, j) ==
    LET actual_val == FloatOrZero(f[j].actual)
        invoice_val == FloatOrZero(f[j].invoice)
    IN  [line_item |-> Strip(f[j].category),
         budget_amount |-> 0,
         financial_actual |-> actual_val,
         invoice_total |-> invoice_val,
         ba_var |-> Num(actual_val),
         ai_var |-> Num(invoice_val - actual_val),
         approval |-> f[j].approval,
         status |-> "Actual-Only",
         budget_rows |-> <<>>,
         flow_row |-> j]

\* rows, in the order the three loops append them
rows(b, f) ==
    LET keys == GroupKeys(b, f, Len(b))
        ub == unmatched_budget(b, f)
        uf == SelectSeq(Indices(f), LAMBDA j : ActualOnlyEmitted(b, f, j))
    IN  [k \in 1..Len(keys) |-> GroupRow(b, f, keys[k])]
        \o [k \in 1..Len(ub) |-> BudgetOnlyRow(b, ub[k])]
        \o [k \in 1..Len(uf) |-> ActualOnlyRow(f, uf[k])]

----------------------------------------------------------------------------
(* build_reconciliation_master: sort and result *)

\* SortKey without .abs()
SortKey_Signed(r) == IF r.ba_var = None THEN 0 ELSE r.ba_var[1]

\* result["Budget-Actual Variance"].abs().fillna(0)
SortKey(r) == IF r.ba_var = None THEN 0 ELSE Abs(r.ba_var[1])

\* sort_values("_sort", ascending=False): descending, ties in input order
\* (the order numpy gives for tables of at most 16 rows)
RECURSIVE InsertDesc(_, _)
InsertDesc(sorted, r) ==
    IF sorted = <<>> THEN <<r>>
    ELSE IF SortKey(Head(sorted)) >= SortKey(r)
         THEN <<Head(sorted)>> \o InsertDesc(Tail(sorted), r)
         ELSE <<r>> \o sorted

RECURSIVE SortRows(_)
SortRows(rs) ==
    IF rs = <<>> THEN <<>>
    ELSE InsertDesc(SortRows(SubSeq(rs, 1, Len(rs) - 1)), rs[Len(rs)])

\* Outcome of one call.  pd.DataFrame([]) has no columns, so selecting
\* "Budget-Actual Variance" raises KeyError; a column holding only None has
\* dtype object and .abs() raises TypeError.
build_reconciliation_master(b, f) ==
    LET rs == rows(b, f)
    IN  IF rs = <<>>
        THEN [kind |-> "KeyError", rows |-> <<>>]
        ELSE IF \A k \in 1..Len(rs) : rs[k].ba_var = None
        THEN [kind |-> "TypeError", rows |-> <<>>]
        ELSE [kind |-> "ok", rows |-> SortRows(rs)]

----------------------------------------------------------------------------
(* Source tables *)

\* total number of rows of the two source tables
MaxRows == 3

Youth == "Youth Programs (instruction)"

BudgetRow(n, c, p) == [name |-> n, cscg |-> c, proposal |-> p]

\* rows load_expense_reconciliation can return: Line Item, CSCG YTD Budget,
\* Proposal YTD Budget
BudgetRows ==
    {BudgetRow(n, a[1], a[2]) :
        n \in {"On Ice Instruction", "Off Ice Instruction", "Electric", "Zamboni Repair"},
        a \in {<<Num(1000), Num(3000)>>, <<NaN, NaN>>}}
    \cup {BudgetRow(n, Num(1000), Num(3000)) : n \in {"Total Expenses", "  ", " Electric "}}
    \cup {BudgetRow("On Ice Instruction", a[1], a[2]) :
        a \in {<<NaN, Num(3000)>>, <<Num(0), Num(3000)>>, <<Num(-6000), NaN>>}}

\* Approval Method cell of a category (a missing cell for Zamboni Repair)
ApprovalOf(cat) ==
    CASE cat = Youth -> <<"Board Approved">>
      [] cat = "Zamboni Repair" -> NaN
      [] OTHER -> <<"CSCG Auto-Pay">>

FlowRow(c, a, i) == [category |-> c, actual |-> a, invoice |-> i, approval |-> ApprovalOf(c)]

\* rows load_expense_flow can return: Expense Category, YTD per Financials,
\* YTD from Invoices, Approval Method
FlowRows ==
    {FlowRow(c, a[1], a[2]) :
        c \in {Youth, "Electric (Engie)", "Electric", "Zamboni Repair"},
        a \in {<<NaN, NaN>>, <<Num(1500), Num(1500)>>}}
    \cup {FlowRow(Youth, a[1], a[2]) :
        a \in {<<Num(0), Num(200)>>, <<Num(1501), NaN>>, <<Num(1501), Num(1501)>>,
               <<Num(6000), Num(6000)>>, <<Num(6001), Num(6000)>>, <<Num(-200), Num(0)>>}}

NoCall == [kind |-> "none", rows |-> <<>>]

\* threshold_pct: float = 0.05, and the slider's initial position, in percent
DefaultThreshold == 5

\* a sheet cell handed to _clean_dollar: missing ("nan"), a text ("str", as
\* the sequence of its characters) or a number ("num", with str(val) as text)
Cell(k, t) == [kind |-> k, text |-> t]
BlankCell == Cell("nan", <<>>)

NoAmount == [kind |-> "none", value |-> <<>>]

\* a workbook sheet as a fixed-offset loader sees it: whether the sheet of
\* the expected name exists, the rows and columns of its used range, the
\* rows whose first cell is blank, and the row whose first cell holds the
\* heading "Approval Method" (-1: none)
Grid(n, r, c) == [named |-> n, nrows |-> r, ncols |-> c, blanks |-> {}, header |-> -1]

\* st.cache_data before the first page view: no loader result and no
\* build_reconciliation_master result are stored
EmptyCache == [budget |-> <<>>, flow |-> <<>>, master |-> <<>>]

\* no contract term has been checked
NoTerm == [expected |-> None, actual |-> 0]

Init ==
    /\ budget = <<>>
    /\ flow = <<>>
    /\ recon = NoCall
    /\ pc = "edit"
    /\ rev = <<>>
    /\ exp = <<>>
    /\ threshold = DefaultThreshold
    /\ alerts = NoCall
    /\ cscg = <<>>
    /\ scorecard = NoCall
    /\ sheet = <<>>
    /\ entries = NoCall
    /\ cell = BlankCell
    /\ amount = NoAmount
    /\ again = NoAmount
    /\ grid = Grid(TRUE, 0, 0)
    /\ loaded = [loader |-> "none", kind |-> "none", rows |-> <<>>]
    /\ cache = EmptyCache
    /\ term = NoTerm
    /\ status = "none"
    /\ hidden = <<>>
    /\ kpis = NoCall

\* one more line item in the Expense Reconciliation sheet
AppendBudgetLine ==
    /\ pc = "edit"
    /\ Len(budget) + Len(flow) < MaxRows
    /\ \E br \in BudgetRows : budget' = Append(budget, br)
    /\ UNCHANGED <<flow, recon, pc, alertVars, scoreVars, entryVars, dollarVars,
                 gridVars, cacheVars, termVars, kpiVars>>

\* one more category in the Expense Flow Analysis sheet
AppendFlowLine ==
    /\ pc = "edit"
    /\ Len(budget) + Len(flow) < MaxRows
    /\ \E fr \in FlowRows : flow' = Append(flow, fr)
    /\ UNCHANGED <<budget, recon, pc, alertVars, scoreVars, entryVars, dollarVars,
                 gridVars, cacheVars, termVars, kpiVars>>

\* the Reconciliation page calls build_reconciliation_master()
ViewReconciliation ==
    /\ pc = "edit"
    /\ recon' = build_reconciliation_master(budget, flow)
    /\ pc' = "viewed"
    /\ UNCHANGED <<budget, flow, alertVars, scoreVars, entryVars, dollarVars,
                 gridVars, cacheVars, termVars, kpiVars>>

Next == AppendBudgetLine \/ AppendFlowLine \/ ViewReconciliation

Spec == Init /\ [][Next]_vars

----------------------------------------------------------------------------
(* Vocabulary of the properties *)

\* the page has been rendered and the call returned a table
Returned == pc = "viewed" /\ recon.kind = "ok"
Out == recon.rows
OutIdx == 1..Len(recon.rows)

\* which loop built an output row
IsGroupRow(r) == r.budget_rows # <<>> /\ r.flow_row # 0
IsBudgetRow(r) == r.budget_rows # <<>> /\ r.flow_row = 0
IsFlowRow(r) == r.budget_rows = <<>> /\ r.flow_row # 0

\* category of the flow record behind an output row
CategoryOf(r) == Strip(flow[r.flow_row].category)

\* occurrences of budget row i among the contributors of the output rows
Contributions(i) ==
    {km \in OutIdx \X (1..Len(budget)) :
        km[2] <= Len(Out[km[1]].budget_rows) /\ Out[km[1]].budget_rows[km[2]] = i}

\* a line the budget loop passes over: blank, or a "Total..." aggregate
IsAggregateOrBlank(name) ==
    Strip(name) = "" \/ Strip(name) \in {"Total", "Total Expenses", "Total Payroll Expenses"}

\* budget row i sits in exactly one output row: the only row of a flow
\* category, or a Budget-Only row of its own
RepresentedOnce(i) ==
    /\ Cardinality(Contributions(i)) = 1
    /\ \A km \in Contributions(i) :
        LET r == Out[km[1]]
        IN  \/ /\ IsGroupRow(r)
               /\ \A k \in OutIdx :
                    (k # km[1] /\ Out[k].flow_row # 0) => CategoryOf(Out[k]) # CategoryOf(r)
            \/ /\ IsBudgetRow(r)
               /\ r.budget_rows = <<i>>
               /\ r.status = "Budget-Only"

----------------------------------------------------------------------------
(* C1 *)

\* C1 as stated: in the returned table every row of the budget table is
\* represented in exactly one output row (a contributor to the single row of
\* its flow category, or its own Budget-Only row); none dropped, none twice.
C1_EveryBudgetRowOnce ==
    Returned => \A i \in 1..Len(budget) : RepresentedOnce(i)

\* C1 amended: that holds of every budget row whose stripped name is not
\* blank and does not start with "Total"; blank and "Total..." rows are
\* passed over and contribute to no output row.
C1_BudgetCoverage ==
    Returned =>
        \A i \in 1..Len(budget) :
            IF IsAggregateOrBlank(budget[i].name)
            THEN Contributions(i) = {}
            ELSE RepresentedOnce(i)

\* a returned table whose budget table holds a passed-over row beside a row
\* that contributes to a group row
C1_Witness ==
    /\ Returned
    /\ \E i \in 1..Len(budget) : IsAggregateOrBlank(budget[i].name)
    /\ \E k \in OutIdx : IsGroupRow(Out[k])

----------------------------------------------------------------------------
(* C2 *)

\* the category a budget line is grouped under, read off the mapping table
\* and the flow table: the mapped category when the flow table lists it,
\* else the line's own name when the flow table lists that
ResolvesTo(name, cat) ==
    LET item == Strip(name)
        hasMapped == item \in DOMAIN budget_to_flow
                        /\ \E j \in 1..Len(flow) : Strip(flow[j].category) = budget_to_flow[item]
    IN  /\ ~IsAggregateOrBlank(name)
        /\ \E j \in 1..Len(flow) : Strip(flow[j].category) = cat
        /\ IF hasMapped THEN cat = budget_to_flow[item] ELSE cat = item

FlowMatched(j) ==
    \E i \in 1..Len(budget) : ResolvesTo(budget[i].name, Strip(flow[j].category))

FlowNonzero(j) ==
    \/ (flow[j].actual # NaN /\ flow[j].actual[1] # 0)
    \/ (flow[j].invoice # NaN /\ flow[j].invoice[1] # 0)

\* C2: every flow record with a nonzero actual or invoice amount is
\* represented in exactly one output row: the group row of its category
\* when a budget row resolves to the category, otherwise an Actual-Only row
\* with Budget Amount 0.  A flow record without an output row is unmatched
\* and has both amounts zero.
C2_FlowCoverage ==
    pc = "viewed" =>
        \A j \in 1..Len(flow) :
            (FlowNonzero(j) \/ FlowMatched(j)) =>
                /\ recon.kind = "ok"
                /\ IF FlowMatched(j)
                   THEN LET ks == {k \in OutIdx : Out[k].flow_row # 0
                                      /\ CategoryOf(Out[k]) = Strip(flow[j].category)}
                        IN  /\ Cardinality(ks) = 1
                            /\ \A k \in ks : IsGroupRow(Out[k])
                   ELSE LET ks == {k \in OutIdx : Out[k].flow_row = j}
                        IN  /\ Cardinality(ks) = 1
                            /\ \A k \in ks : /\ IsFlowRow(Out[k])
                                             /\ Out[k].status = "Actual-Only"
                                             /\ Out[k].budget_amount = 0
                                             /\ Out[k].line_item = Strip(flow[j].category)

\* a nonzero flow record in a group row beside a nonzero unmatched one
C2_Witness ==
    /\ pc = "viewed"
    /\ \E j \in 1..Len(flow) : FlowNonzero(j) /\ FlowMatched(j)
    /\ \E j \in 1..Len(flow) : FlowNonzero(j) /\ ~FlowMatched(j)

----------------------------------------------------------------------------
(* C3, C4 *)

\* C3: the status of a row built from a budget group with a flow record
\* follows the precedence Budget-Only, No Invoice Trail, Major Variance
\* (|budget - actual| > 5000), Minor Variance (> 500), Matched.
C3_StatusPrecedence ==
    Returned =>
        \A k \in OutIdx :
            IsGroupRow(Out[k]) =>
                LET b == Out[k].budget_amount
                    a == Out[k].financial_actual
                    i == Out[k].invoice_total
                    d == IF b - a < 0 THEN a - b ELSE b - a
                    budgetOnly == a = 0 /\ i = 0 /\ b > 0
                    noTrail == ~budgetOnly /\ i = 0 /\ a > 0
                    major == ~budgetOnly /\ ~noTrail /\ d > 5000
                    minor == ~budgetOnly /\ ~noTrail /\ ~major /\ d > 500
                IN  /\ budgetOnly => Out[k].status = "Budget-Only"
                    /\ noTrail => Out[k].status = "No Invoice Trail"
                    /\ major => Out[k].status = "Major Variance"
                    /\ minor => Out[k].status = "Minor Variance"
                    /\ (~budgetOnly /\ ~noTrail /\ ~major /\ ~minor) => Out[k].status = "Matched"

\* a group row without invoices whose variance exceeds 5000: the earlier
\* rule wins
C3_Witness ==
    /\ Returned
    /\ \E k \in OutIdx :
        /\ IsGroupRow(Out[k])
        /\ Out[k].invoice_total = 0
        /\ Out[k].financial_actual > 0
        /\ Out[k].financial_actual - Out[k].budget_amount > 5000
        /\ Out[k].status = "No Invoice Trail"

AtBoundary500(r) ==
    /\ IsGroupRow(r)
    /\ r.invoice_total # 0
    /\ r.budget_amount = 1000
    /\ r.financial_actual = 1500

\* C4 as stated: budget 1000, actual 1500, nonzero invoice is Minor Variance
C4_Boundary500Minor ==
    Returned => \A k \in OutIdx : AtBoundary500(Out[k]) => Out[k].status = "Minor Variance"

\* C4 amended: budget 1000, actual 1500 (difference exactly 500), nonzero
\* invoice is Matched; the comparison with 500 is strict
C4_Boundary500Matched ==
    Returned => \A k \in OutIdx : AtBoundary500(Out[k]) => Out[k].status = "Matched"

C4_Witness ==
    Returned /\ \E k \in OutIdx : AtBoundary500(Out[k])

----------------------------------------------------------------------------
(* C5 *)

\* budget figure of one budget row: CSCG YTD Budget when present, else
\* Proposal YTD Budget, else 0
ChosenFigure(br) ==
    IF br.cscg # NaN THEN br.cscg[1]
    ELSE IF br.proposal # NaN THEN br.proposal[1]
    ELSE 0

\* a line item (not passed over) that resolves to no flow category
NoCategory(i) ==
    /\ ~IsAggregateOrBlank(budget[i].name)
    /\ \A j \in 1..Len(flow) : ~ResolvesTo(budget[i].name, Strip(flow[j].category))

\* budget row i has a Budget-Only row of its own, with variance v
OwnBudgetOnlyRow(i, v) ==
    /\ Cardinality(Contributions(i)) = 1
    /\ \A km \in Contributions(i) :
        LET r == Out[km[1]]
        IN  /\ r.budget_rows = <<i>>
            /\ r.flow_row = 0
            /\ r.line_item = Strip(budget[i].name)
            /\ r.status = "Budget-Only"
            /\ r.financial_actual = 0
            /\ r.invoice_total = 0
            /\ r.budget_amount = ChosenFigure(budget[i])
            /\ r.ba_var = v

\* C5 as stated: every line item with no resolvable flow category has its
\* own Budget-Only row with actual 0, invoice 0 and Budget-Actual Variance
\* equal to minus its Budget Amount, zero and missing amounts included.
C5_VarianceAlwaysNegatedBudget ==
    Returned =>
        \A i \in 1..Len(budget) :
            NoCategory(i) => OwnBudgetOnlyRow(i, Num(0 - ChosenFigure(budget[i])))

\* C5 amended: the variance is minus the Budget Amount when that amount is
\* nonzero, and null when the amount is zero or missing.
C5_VarianceNegatedOrNull ==
    Returned =>
        \A i \in 1..Len(budget) :
            NoCategory(i) =>
                OwnBudgetOnlyRow(i, IF ChosenFigure(budget[i]) # 0
                                    THEN Num(0 - ChosenFigure(budget[i]))
                                    ELSE None)

\* a returned table with an unmatched line item of budget zero or missing
\* and an unmatched line item with a nonzero budget
C5_Witness ==
    /\ Returned
    /\ \E i \in 1..Len(budget) : NoCategory(i) /\ ChosenFigure(budget[i]) = 0
    /\ \E i \in 1..Len(budget) : NoCategory(i) /\ ChosenFigure(budget[i]) # 0

----------------------------------------------------------------------------
(* C6, C7 *)

\* the budget rows resolving to a category, in table order
Members(cat) ==
    SelectSeq([i \in 1..Len(budget) |-> i], LAMBDA i : ResolvesTo(budget[i].name, cat))

\* names joined with " + ", and the sum of the chosen figures
PlusJoined(idx) ==
    LET J[k \in 1..Len(idx)] ==
            IF k = 1 THEN Strip(budget[idx[1]].name)
            ELSE J[k - 1] \o " + " \o Strip(budget[idx[k]].name)
    IN  J[Len(idx)]

FigureSum(idx) ==
    LET S[k \in 0..Len(idx)] ==
            IF k = 0 THEN 0 ELSE S[k - 1] + ChosenFigure(budget[idx[k]])
    IN  S[Len(idx)]

\* C6: k >= 2 budget rows resolving to one flow category give exactly one
\* row for the category, with Budget Amount the sum of the k figures and
\* label "<category> (<name1> + ... + <namek>)"; a single budget row gives a
\* row labelled with the budget row's own (stripped) name.
C6_ManyToOne ==
    Returned =>
        \A j \in 1..Len(flow) :
            LET cat == Strip(flow[j].category)
                idx == Members(cat)
                ks == {k \in OutIdx : Out[k].flow_row # 0 /\ CategoryOf(Out[k]) = cat}
            IN  Len(idx) >= 1 =>
                    /\ Cardinality(ks) = 1
                    /\ \A k \in ks :
                        /\ Out[k].budget_rows = idx
                        /\ Out[k].budget_amount = FigureSum(idx)
                        /\ Out[k].line_item =
                              IF Len(idx) >= 2
                              THEN cat \o " (" \o PlusJoined(idx) \o ")"
                              ELSE Strip(budget[idx[1]].name)

\* a returned table with a group row of at least two budget rows
C6_Witness ==
    /\ Returned
    /\ \E k \in OutIdx : IsGroupRow(Out[k]) /\ Len(Out[k].budget_rows) >= 2

\* C7: the Budget Amount of every output row built from budget rows is the
\* sum of figures chosen row by row (CSCG YTD Budget, else Proposal YTD
\* Budget, else 0).
C7_PerRowFallback ==
    Returned =>
        \A k \in OutIdx :
            Out[k].budget_rows # <<>> => Out[k].budget_amount = FigureSum(Out[k].budget_rows)

\* a group in which one row lacks the CSCG figure and falls back on its
\* proposal while another row keeps a CSCG figure that differs from its
\* proposal
C7_Witness ==
    /\ Returned
    /\ \E k \in OutIdx :
        /\ IsGroupRow(Out[k])
        /\ \E m, n \in 1..Len(Out[k].budget_rows) :
            LET x == budget[Out[k].budget_rows[m]]
                y == budget[Out[k].budget_rows[n]]
            IN  /\ x.cscg = NaN /\ x.proposal # NaN
                /\ y.cscg # NaN /\ y.proposal # NaN /\ y.cscg # y.proposal

----------------------------------------------------------------------------
(* C8 *)

AbsVariance(r) ==
    IF r.ba_var = None THEN 0
    ELSE IF r.ba_var[1] < 0 THEN 0 - r.ba_var[1] ELSE r.ba_var[1]

\* C8: the returned table is in descending order of absolute Budget-Actual
\* Variance, a null variance counting as 0.
C8_SortedByAbsVariance ==
    Returned =>
        \A k \in 1..(Len(Out) - 1) : AbsVariance(Out[k]) >= AbsVariance(Out[k + 1])

\* a returned table where a negative variance outranks a smaller positive
\* one and a null variance comes last
C8_Witness ==
    /\ Returned
    /\ Len(Out) >= 3
    /\ \E k \in OutIdx : Out[k].ba_var = None
    /\ \E k, m \in OutIdx :
        /\ Out[k].ba_var # None /\ Out[m].ba_var # None
        /\ Out[k].ba_var[1] < 0 /\ Out[m].ba_var[1] > 0
        /\ AbsVariance(Out[k]) > AbsVariance(Out[m])

----------------------------------------------------------------------------
(* C9 *)

\* C9 as stated: two output rows with equal budget, actual and invoice
\* amounts carry the same status, whichever loop built them.
C9_StatusFromAmountsAlone ==
    Returned =>
        \A k, m \in OutIdx :
            (/\ Out[k].budget_amount = Out[m].budget_amount
             /\ Out[k].financial_actual = Out[m].financial_actual
             /\ Out[k].invoice_total = Out[m].invoice_total)
            => Out[k].status = Out[m].status

\* the status as a fixed function of the loop that built the row and of the
\* row's three amounts
StatusByPath(path, b, a, i) ==
    CASE path = "budget" -> "Budget-Only"
      [] path = "flow" -> "Actual-Only"
      [] OTHER ->
            IF a = 0 /\ i = 0 /\ b > 0 THEN "Budget-Only"
            ELSE IF i = 0 /\ a > 0 THEN "No Invoice Trail"
            ELSE IF (b - a > 5000) \/ (a - b > 5000) THEN "Major Variance"
            ELSE IF (b - a > 500) \/ (a - b > 500) THEN "Minor Variance"
            ELSE "Matched"

PathOf(r) ==
    IF r.flow_row = 0 THEN "budget"
    ELSE IF r.budget_rows = <<>> THEN "flow"
    ELSE "group"

\* C9 amended: the status is a function of the three amounts together with
\* the path that produced the row (matched group, unmatched budget row,
\* unmatched flow category); rows of one path with equal amounts carry the
\* same status, in this run and in any other.
C9_StatusFromPathAndAmounts ==
    Returned =>
        \A k \in OutIdx :
            Out[k].status = StatusByPath(PathOf(Out[k]), Out[k].budget_amount,
                                         Out[k].financial_actual, Out[k].invoice_total)

\* two rows with the same three amounts, built by different loops, with
\* different statuses
C9_Witness ==
    /\ Returned
    /\ \E k, m \in OutIdx :
        /\ PathOf(Out[k]) # PathOf(Out[m])
        /\ Out[k].budget_amount = Out[m].budget_amount
        /\ Out[k].financial_actual = Out[m].financial_actual
        /\ Out[k].invoice_total = Out[m].invoice_total
        /\ Out[k].status # Out[m].status

----------------------------------------------------------------------------
(* C10 *)

InFlow(cat) == \E j \in 1..Len(flow) : Strip(flow[j].category) = cat
HasMapping(item) == item \in DOMAIN budget_to_flow

\* budget row i sits in the group row of category cat, and in no other row
PlacedInGroup(i, cat) ==
    /\ Cardinality(Contributions(i)) = 1
    /\ \A km \in Contributions(i) :
        IsGroupRow(Out[km[1]]) /\ CategoryOf(Out[km[1]]) = cat

\* budget row i is marked unmatched: a Budget-Only row of its own
PlacedUnmatched(i) ==
    /\ Cardinality(Contributions(i)) = 1
    /\ \A km \in Contributions(i) :
        IsBudgetRow(Out[km[1]]) /\ Out[km[1]].budget_rows = <<i>>

\* C10 as stated: a line item with a mapping entry goes to its mapped
\* category; it goes to its own name only when it is unmapped and the name
\* is a flow category; otherwise it is unmatched.
C10_OwnNameOnlyWhenUnmapped ==
    Returned =>
        \A i \in 1..Len(budget) :
            LET item == Strip(budget[i].name)
            IN  ~IsAggregateOrBlank(budget[i].name) =>
                    IF HasMapping(item) /\ InFlow(budget_to_flow[item])
                    THEN PlacedInGroup(i, budget_to_flow[item])
                    ELSE IF ~HasMapping(item) /\ InFlow(item)
                    THEN PlacedInGroup(i, item)
                    ELSE PlacedUnmatched(i)

\* C10 amended: a line item goes to its mapped category when it has a
\* mapping entry whose category is in the flow table; otherwise to its own
\* name when that name is a flow category, mapped or not; otherwise it is
\* unmatched.  It is placed in at most one group.
C10_Resolution ==
    Returned =>
        \A i \in 1..Len(budget) :
            LET item == Strip(budget[i].name)
            IN  ~IsAggregateOrBlank(budget[i].name) =>
                    /\ IF HasMapping(item) /\ InFlow(budget_to_flow[item])
                       THEN PlacedInGroup(i, budget_to_flow[item])
                       ELSE IF InFlow(item)
                       THEN PlacedInGroup(i, item)
                       ELSE PlacedUnmatched(i)
                    /\ Cardinality({k \in OutIdx : IsGroupRow(Out[k])
                            /\ \E m \in 1..Len(Out[k].budget_rows) : Out[k].budget_rows[m] = i}) <= 1

\* a mapped line item grouped under its own name because only that name,
\* and not its mapped category, is in the flow table
C10_Witness ==
    /\ Returned
    /\ \E i \in 1..Len(budget) :
        LET item == Strip(budget[i].name)
        IN  /\ HasMapping(item) /\ ~InFlow(budget_to_flow[item]) /\ InFlow(item)
            /\ PlacedInGroup(i, item)

----------------------------------------------------------------------------
(* compute_variance_alerts: flag line items whose CSCG budget deviates     *)
(* from the proposal.  A percentage is an exact ratio <<n, d>> with d > 0  *)
(* in lowest terms (0.0499 is <<499, 10000>>), or NaN / None; the          *)
(* threshold is the slider's whole percent, threshold_pct = threshold/100. *)

RECURSIVE GCD(_, _)
GCD(a, b) == IF b = 0 THEN a ELSE GCD(b, a % b)

\* n / d for d > 0, in lowest terms
Ratio(n, d) == LET g == GCD(Abs(n), d) IN <<n \div g, d \div g>>

\* abs_pct >= 0.50
RedPct == 50
\* abs_var >= 10000
RedDollars == 10000
\* abs_var >= 2000
YellowDollars == 2000

\* one row of a reconciliation sheet: Line Item, Proposal YTD Budget,
\* CSCG YTD Budget, YTD Variance $, YTD Variance %, Assessment
AlertLine(n, p, c, v, q, a) ==
    [name |-> n, proposal |-> p, cscg |-> c, variance |-> v, pct |-> q,
     assessment |-> a]

\* pd.isna(item) or str(item).startswith("Total"); the loaders drop the rows
\* without a Line Item, so item is a string here
TotalLine(r) == StartsWithTotal(r.name)

\* variant: a line is dropped as soon as one of its amounts is missing
NoAmounts_Either(r) == isna(r.proposal) \/ isna(r.cscg)

\* if pd.isna(proposal_ytd) and pd.isna(cscg_ytd): continue
NoAmounts(r) == isna(r.proposal) /\ isna(r.cscg)

\* variant: the difference is divided by the signed proposal
VariancePct_SignedDenominator(r) ==
    IF isna(r.pct) /\ notna(r.proposal) /\ r.proposal[1] # 0
    THEN IF notna(r.cscg)
         THEN Ratio((r.cscg[1] - r.proposal[1]) * (IF r.proposal[1] < 0 THEN -1 ELSE 1),
                    Abs(r.proposal[1]))
         ELSE None
    ELSE r.pct

\* "Compute pct if missing": the sheet's YTD Variance % unless it is missing
\* and the proposal is present and nonzero
VariancePct(r) ==
    IF isna(r.pct) /\ notna(r.proposal) /\ r.proposal[1] # 0
    THEN IF notna(r.cscg)
         THEN Ratio(r.cscg[1] - r.proposal[1], Abs(r.proposal[1]))
         ELSE None
    ELSE r.pct

\* variant: the sign of the percentage is kept
AbsPct_Signed(q) == IF notna(q) THEN q ELSE <<0, 1>>

\* abs(pct) if pd.notna(pct) else 0
AbsPct(q) == IF notna(q) THEN <<Abs(q[1]), q[2]>> ELSE <<0, 1>>

\* abs(variance) if pd.notna(variance) else 0
AbsVar(v) == IF notna(v) THEN Abs(v[1]) ELSE 0

\* variant: strict comparisons
Severity_Exclusive(abs_pct, abs_var, t) ==
    IF 100 * abs_pct[1] > RedPct * abs_pct[2] \/ abs_var > RedDollars
    THEN "RED"
    ELSE IF 100 * abs_pct[1] > t * abs_pct[2] \/ abs_var > YellowDollars
    THEN "YELLOW"
    ELSE "GREEN"

\* the severity chain; q >= t/100 is 100 * q[1] >= t * q[2]
Severity(abs_pct, abs_var, t) ==
    IF 100 * abs_pct[1] >= RedPct * abs_pct[2] \/ abs_var >= RedDollars
    THEN "RED"
    ELSE IF 100 * abs_pct[1] >= t * abs_pct[2] \/ abs_var >= YellowDollars
    THEN "YELLOW"
    ELSE "GREEN"

\* variant: revenue lines are classified on the percentage alone
AlertRow_ByCategory(source, r, t, k) ==
    [category |-> source, line_item |-> r.name,
     proposal_ytd |-> r.proposal, cscg_ytd |-> r.cscg,
     variance |-> r.variance, pct |-> VariancePct(r),
     severity |-> Severity(AbsPct(VariancePct(r)),
                           IF source = "Revenue" THEN 0 ELSE AbsVar(r.variance), t),
     assessment |-> r.assessment, src_row |-> <<source, k>>]

\* rows.append({...}); src_row records the sheet row the alert was made from
AlertRow(source, r, t, k) ==
    [category |-> source, line_item |-> r.name,
     proposal_ytd |-> r.proposal, cscg_ytd |-> r.cscg,
     variance |-> r.variance, pct |-> VariancePct(r),
     severity |-> Severity(AbsPct(VariancePct(r)), AbsVar(r.variance), t),
     assessment |-> r.assessment, src_row |-> <<source, k>>]

\* the loop over one table
RECURSIVE AlertRowsOf(_, _, _, _)
AlertRowsOf(source, tbl, t, k) ==
    IF k > Len(tbl) THEN <<>>
    ELSE (IF TotalLine(tbl[k]) \/ NoAmounts(tbl[k]) THEN <<>>
          ELSE <<AlertRow(source, tbl[k], t, k)>>)
         \o AlertRowsOf(source, tbl, t, k + 1)

\* variant: the rank of a severity is its place in the alphabet
sev_order_Alphabetical(sev) == CASE sev = "GREEN" -> 0 [] sev = "RED" -> 1 [] sev = "YELLOW" -> 2

\* sev_order
sev_order(sev) == CASE sev = "RED" -> 0 [] sev = "YELLOW" -> 1 [] sev = "GREEN" -> 2

\* x sorts strictly before y under ["_sort", "Variance $"], both ascending,
\* a missing Variance $ last among the rows of one severity
AlertBefore(x, y) ==
    \/ sev_order(x.severity) < sev_order(y.severity)
    \/ /\ sev_order(x.severity) = sev_order(y.severity)
       /\ notna(x.variance)
       /\ (isna(y.variance) \/ x.variance[1] < y.variance[1])

RECURSIVE InsertAlert(_, _)
InsertAlert(sorted, r) ==
    IF sorted = <<>> THEN <<r>>
    ELSE IF AlertBefore(r, Head(sorted))
         THEN <<r>> \o sorted
         ELSE <<Head(sorted)>> \o InsertAlert(Tail(sorted), r)

\* sort_values(["_sort", "Variance $"]): ties keep the input order
RECURSIVE SortAlerts(_)
SortAlerts(rs) ==
    IF rs = <<>> THEN <<>>
    ELSE InsertAlert(SortAlerts(SubSeq(rs, 1, Len(rs) - 1)), rs[Len(rs)])

\* Outcome of one call.  With no alert row pd.DataFrame([]) has no columns
\* and result["Severity"] raises KeyError.
compute_variance_alerts(rv, ex, t) ==
    LET rs == AlertRowsOf("Revenue", rv, t, 1) \o AlertRowsOf("Expense", ex, t, 1)
    IN  IF rs = <<>>
        THEN [kind |-> "KeyError", rows |-> <<>>]
        ELSE [kind |-> "ok", rows |-> SortAlerts(rs)]

----------------------------------------------------------------------------
(* Reconciliation sheets seen by the Variance Alerts page *)

\* total number of rows of the revenue and expense reconciliation tables
MaxAlertRows == 2

\* positions of the threshold slider (1..25, step 1) that are explored
Thresholds == {1, 4, 5, 25}

\* rows the two loaders can return
AlertLines ==
    {AlertLine("Electric", Num(a[1]), Num(a[2]), a[3], a[4], NaN) :
        a \in {<<10000, 15000, NaN, NaN>>,
               <<10000, 10499, NaN, NaN>>,
               <<10000, 10500, NaN, NaN>>,
               <<10000, 10499, Num(499), <<499, 10000>>>>,
               <<10000, 15000, Num(5000), <<1, 2>>>>,
               <<10000, 15000, Num(100), <<1, 100>>>>,
               <<10000, 5000, Num(-5000), NaN>>,
               <<-10000, -15000, NaN, NaN>>,
               <<10000, 20000, Num(10000), <<1, 100>>>>,
               <<50000, 52000, Num(2000), NaN>>,
               <<50000, 51999, Num(1999), NaN>>,
               <<0, 5000, Num(5000), NaN>>,
               <<0, 5000, Num(5000), <<1, 1>>>>}}
    \cup {AlertLine("Learn to Skate", Num(10000), NaN, NaN, NaN, <<"Timing">>),
          AlertLine("Learn to Skate", NaN, Num(5000), NaN, NaN, <<"New line">>),
          AlertLine("Learn to Skate", NaN, NaN, Num(12000), <<3, 5>>, NaN),
          AlertLine("Total Expenses", Num(10000), Num(15000), Num(5000), <<1, 2>>, NaN)}

\* one more line item in the Revenue Reconciliation sheet
AppendRevenueLine ==
    /\ pc = "edit"
    /\ Len(rev) + Len(exp) < MaxAlertRows
    /\ \E r \in AlertLines : rev' = Append(rev, r)
    /\ UNCHANGED <<exp, threshold, alerts, pc, reconVars, scoreVars, entryVars, dollarVars,
                 gridVars, cacheVars, termVars, kpiVars>>

\* one more line item in the Expense Reconciliation sheet
AppendExpenseLine ==
    /\ pc = "edit"
    /\ Len(rev) + Len(exp) < MaxAlertRows
    /\ \E r \in AlertLines : exp' = Append(exp, r)
    /\ UNCHANGED <<rev, threshold, alerts, pc, reconVars, scoreVars, entryVars, dollarVars,
                 gridVars, cacheVars, termVars, kpiVars>>

\* the viewer drags the "Variance threshold (%)" slider
MoveSlider ==
    /\ pc = "edit"
    /\ \E t \in Thresholds \ {threshold} : threshold' = t
    /\ UNCHANGED <<rev, exp, alerts, pc, reconVars, scoreVars, entryVars, dollarVars,
                 gridVars, cacheVars, termVars, kpiVars>>

\* the page calls compute_variance_alerts(threshold_pct=threshold)
ViewAlerts ==
    /\ pc = "edit"
    /\ alerts' = compute_variance_alerts(rev, exp, threshold)
    /\ pc' = "viewed"
    /\ UNCHANGED <<rev, exp, threshold, reconVars, scoreVars, entryVars, dollarVars,
                 gridVars, cacheVars, termVars, kpiVars>>

NextAlerts == AppendRevenueLine \/ AppendExpenseLine \/ MoveSlider \/ ViewAlerts

SpecAlerts == Init /\ [][NextAlerts]_vars

----------------------------------------------------------------------------
(* Vocabulary of the variance-alert properties *)

\* the page has rendered a table compute_variance_alerts returned
AlertsReturned == pc = "viewed" /\ alerts.kind = "ok"

AlertIdx == 1..Len(alerts.rows)

\* the sheet row an alert was made from
SheetRow(x) == IF x.src_row[1] = "Revenue" THEN rev[x.src_row[2]] ELSE exp[x.src_row[2]]

\* |q| >= p percent, for a percentage q that is present
PctAtLeast(q, p) == notna(q) /\ 100 * Abs(q[1]) >= p * q[2]

\* |v| >= d dollars, for an amount v that is present
DollarsAtLeast(v, d) == notna(v) /\ Abs(v[1]) >= d

RedBand(x) == PctAtLeast(x.pct, 50) \/ DollarsAtLeast(x.variance, 10000)
YellowBand(x) == PctAtLeast(x.pct, threshold) \/ DollarsAtLeast(x.variance, 2000)

\* RED / YELLOW / GREEN by the inclusive bands of the row's own figures
BandRule(x) ==
    /\ x.severity = "RED" <=> RedBand(x)
    /\ x.severity = "YELLOW" <=> (~RedBand(x) /\ YellowBand(x))
    /\ x.severity = "GREEN" <=> (~RedBand(x) /\ ~YellowBand(x))

HasAmounts(x, p, c) == x.proposal_ytd = Num(p) /\ x.cscg_ytd = Num(c)

\* the three worked examples
ExampleSeverities(x) ==
    /\ HasAmounts(x, 10000, 15000) => x.severity = "RED"
    /\ (HasAmounts(x, 10000, 10499) /\ threshold = 5) => x.severity = "GREEN"
    /\ (HasAmounts(x, 10000, 10499) /\ threshold = 4) => x.severity = "YELLOW"

\* the sheet's variance cells of the row are blank or agree with its amounts
FiguresAgree(x) ==
    /\ notna(x.proposal_ytd) /\ notna(x.cscg_ytd) /\ x.proposal_ytd[1] # 0
    /\ x.variance \in {NaN, Num(x.cscg_ytd[1] - x.proposal_ytd[1])}
    /\ x.pct = Ratio(x.cscg_ytd[1] - x.proposal_ytd[1], Abs(x.proposal_ytd[1]))

----------------------------------------------------------------------------
(* C11 *)

\* C11 as stated: every alert row is RED when |variance %| >= 0.50 or
\* |variance $| >= 10000, else YELLOW when |variance %| >= threshold or
\* |variance $| >= 2000, else GREEN, and a row with proposed 10000 and
\* actual 15000 is RED, one with proposed 10000 and actual 10499 is GREEN at
\* threshold 0.05 and YELLOW at 0.04.
C11_SeverityBands ==
    AlertsReturned =>
        \A k \in AlertIdx : BandRule(alerts.rows[k]) /\ ExampleSeverities(alerts.rows[k])

\* C11 amended: the bands are applied, inclusively, to the Variance $ and
\* Variance % the row carries; the worked examples hold for the rows whose
\* sheet variance cells are blank or agree with the amounts.
C11_SeverityBandsOfCarriedFigures ==
    AlertsReturned =>
        \A k \in AlertIdx :
            /\ BandRule(alerts.rows[k])
            /\ FiguresAgree(alerts.rows[k]) => ExampleSeverities(alerts.rows[k])

\* at threshold 4 the table shows 10000 -> 15000 as RED on the computed 0.50
\* and 10000 -> 10499 as YELLOW
C11_Witness ==
    /\ AlertsReturned
    /\ threshold = 4
    /\ \E k \in AlertIdx :
        /\ HasAmounts(alerts.rows[k], 10000, 15000)
        /\ isna(SheetRow(alerts.rows[k]).pct)
        /\ alerts.rows[k].pct = <<1, 2>>
        /\ alerts.rows[k].severity = "RED"
    /\ \E k \in AlertIdx :
        /\ HasAmounts(alerts.rows[k], 10000, 10499)
        /\ alerts.rows[k].severity = "YELLOW"

----------------------------------------------------------------------------
(* C12 *)

\* (actual - proposed) / |proposed| of an alert row with both amounts
PctOfAmounts(x) == Ratio(x.cscg_ytd[1] - x.proposal_ytd[1], Abs(x.proposal_ytd[1]))

\* C12 as stated: every alert row's variance percent equals
\* (actual - proposed) / |proposed| when proposed is nonzero, and is null
\* when proposed is zero.
C12_PctFromAmounts ==
    AlertsReturned =>
        \A k \in AlertIdx :
            LET x == alerts.rows[k]
            IN  /\ (notna(x.proposal_ytd) /\ x.proposal_ytd[1] # 0 /\ notna(x.cscg_ytd))
                    => x.pct = PctOfAmounts(x)
                /\ x.proposal_ytd = Num(0) => isna(x.pct)

\* C12 amended: an alert row carries the sheet's YTD Variance % when the
\* sheet has one; otherwise the percent equals (actual - proposed) /
\* |proposed| when both amounts are present and proposed is nonzero, and is
\* null when proposed is zero or absent or actual is absent.
C12_PctStoredElseFromAmounts ==
    AlertsReturned =>
        \A k \in AlertIdx :
            LET x == alerts.rows[k]
                stored == SheetRow(x).pct
            IN  IF notna(stored) THEN x.pct = stored
                ELSE IF notna(x.proposal_ytd) /\ x.proposal_ytd[1] # 0 /\ notna(x.cscg_ytd)
                THEN x.pct = PctOfAmounts(x)
                ELSE isna(x.pct)

\* the table shows a negative proposal's percent derived from the amounts
\* (-10000 -> -15000 is -1/2) beside a zero proposal without a percent
C12_Witness ==
    /\ AlertsReturned
    /\ \E k \in AlertIdx :
        /\ isna(SheetRow(alerts.rows[k]).pct)
        /\ HasAmounts(alerts.rows[k], -10000, -15000)
        /\ alerts.rows[k].pct = <<-1, 2>>
    /\ \E k \in AlertIdx :
        /\ alerts.rows[k].proposal_ytd = Num(0)
        /\ isna(alerts.rows[k].pct)

----------------------------------------------------------------------------
(* C13 *)

SameOutcome(x, y) ==
    x.variance = y.variance /\ x.pct = y.pct /\ x.severity = y.severity

\* C13 as stated: variance dollars, variance percent and severity are
\* determined by the proposed amount, the actual amount and the threshold
\* alone: two line items of one table with equal proposed and actual amounts
\* get the same figures and the same severity.
C13_DeterminedByAmounts ==
    AlertsReturned =>
        \A j, k \in AlertIdx :
            (/\ alerts.rows[j].proposal_ytd = alerts.rows[k].proposal_ytd
             /\ alerts.rows[j].cscg_ytd = alerts.rows[k].cscg_ytd)
            => SameOutcome(alerts.rows[j], alerts.rows[k])

\* C13 amended: the figures and the severity are determined by the proposed
\* amount, the actual amount, the sheet's YTD Variance $ and YTD Variance %
\* cells and the threshold: two line items that agree on these four cells
\* get the same figures and the same severity, whichever sheet they are on.
C13_DeterminedByAmountsAndStoredFigures ==
    AlertsReturned =>
        \A j, k \in AlertIdx :
            LET x == alerts.rows[j]
                y == alerts.rows[k]
            IN  (/\ x.proposal_ytd = y.proposal_ytd
                 /\ x.cscg_ytd = y.cscg_ytd
                 /\ SheetRow(x).variance = SheetRow(y).variance
                 /\ SheetRow(x).pct = SheetRow(y).pct)
                => SameOutcome(x, y)

\* the same four cells on a revenue line and on an expense line, classified
\* YELLOW on the dollar band alone
C13_Witness ==
    /\ AlertsReturned
    /\ threshold = 5
    /\ \E j, k \in AlertIdx :
        /\ alerts.rows[j].category = "Revenue"
        /\ alerts.rows[k].category = "Expense"
        /\ HasAmounts(alerts.rows[j], 50000, 52000)
        /\ HasAmounts(alerts.rows[k], 50000, 52000)
        /\ SheetRow(alerts.rows[j]).variance = SheetRow(alerts.rows[k]).variance
        /\ SheetRow(alerts.rows[j]).pct = SheetRow(alerts.rows[k]).pct
        /\ alerts.rows[j].severity = "YELLOW"
        /\ alerts.rows[k].severity = "YELLOW"

----------------------------------------------------------------------------
(* C14, C15 *)

\* the rows of the two reconciliation tables, as <<sheet, index>>
SheetRows ==
    {<<"Revenue", k>> : k \in 1..Len(rev)} \cup {<<"Expense", k>> : k \in 1..Len(exp)}

LineAt(w) == IF w[1] = "Revenue" THEN rev[w[2]] ELSE exp[w[2]]

\* number of alert rows made from sheet row w
Appearances(w) == Cardinality({k \in AlertIdx : alerts.rows[k].src_row = w})

\* C14: once the page has called compute_variance_alerts, a line item with
\* neither a proposed nor an actual amount is on no alert row, and every line
\* item with at least one of the two amounts and a name not starting with
\* "Total" is on exactly one alert row of a returned table.
C14_ExcludedOrOnce ==
    pc = "viewed" /\ alerts.kind # "none" =>
        \A w \in SheetRows :
            /\ (isna(LineAt(w).proposal) /\ isna(LineAt(w).cscg)) => Appearances(w) = 0
            /\ ((notna(LineAt(w).proposal) \/ notna(LineAt(w).cscg))
                    /\ ~StartsWithTotal(LineAt(w).name))
                => (alerts.kind = "ok" /\ Appearances(w) = 1)

\* a line with stored variance figures but no amounts is left out beside a
\* line with the actual amount only, which is the table's single row
C14_Witness ==
    /\ AlertsReturned
    /\ Len(alerts.rows) = 1
    /\ \E w \in SheetRows :
        /\ isna(LineAt(w).proposal) /\ isna(LineAt(w).cscg)
        /\ notna(LineAt(w).variance)
        /\ Appearances(w) = 0
    /\ \E w \in SheetRows :
        /\ isna(LineAt(w).proposal) /\ notna(LineAt(w).cscg)
        /\ Appearances(w) = 1

SevRank(sev) == CASE sev = "GREEN" -> 0 [] sev = "YELLOW" -> 1 [] sev = "RED" -> 2

\* |variance %| of an alert row as <<n, d>>, a missing percent counting as 0
AbsPctOf(x) == IF notna(x.pct) THEN <<Abs(x.pct[1]), x.pct[2]>> ELSE <<0, 1>>

\* |variance $| of an alert row, a missing amount counting as 0
AbsVarOf(x) == IF notna(x.variance) THEN Abs(x.variance[1]) ELSE 0

\* x deviates at least as much as y in percent and in dollars
DeviatesAtLeast(x, y) ==
    /\ AbsPctOf(x)[1] * AbsPctOf(y)[2] >= AbsPctOf(y)[1] * AbsPctOf(x)[2]
    /\ AbsVarOf(x) >= AbsVarOf(y)

\* C15: at one threshold, an alert row whose absolute variance percent and
\* absolute variance dollars are both at least those of another row has a
\* severity at least that of the other row (GREEN < YELLOW < RED).
C15_SeverityMonotonic ==
    AlertsReturned =>
        \A j, k \in AlertIdx :
            DeviatesAtLeast(alerts.rows[j], alerts.rows[k])
            => SevRank(alerts.rows[j].severity) >= SevRank(alerts.rows[k].severity)

\* a row of -50% and -5000 dominates a row of 4% and 2000 and is RED above
\* the other's YELLOW
C15_Witness ==
    /\ AlertsReturned
    /\ \E j, k \in AlertIdx :
        /\ alerts.rows[j].pct = <<-1, 2>> /\ alerts.rows[j].variance = Num(-5000)
        /\ alerts.rows[k].pct = <<1, 25>> /\ alerts.rows[k].variance = Num(2000)
        /\ DeviatesAtLeast(alerts.rows[j], alerts.rows[k])
        /\ alerts.rows[j].severity = "RED"
        /\ alerts.rows[k].severity = "YELLOW"

----------------------------------------------------------------------------
(* compute_cscg_scorecard: CSCG contract compliance.  Amounts of the       *)
(* scorecard are in cents, so that 192500.35 is the integer 19250035; an   *)
(* amount of c cents stands for the float nearest to c / 100.  The sheet   *)
(* amounts are whole dollars, whose float sums are exact.                  *)

Dollars(n) == 100 * n

\* one row of the CSCG Relationship sheet: Component, Amount
CscgLine(c, a) == [component |-> c, amount |-> a]

\* Component.str.contains(needle, case=False, na=False)
Contains(component, needle) ==
    CASE needle = "Management Fee" ->
            component \in {"Management Fee", "CSCG management fee - December"}
      [] needle = "Office Payroll" -> component = "Office Payroll"
      [] needle = "Operations Payroll" -> component = "Operations Payroll"
      [] needle = "Workers Comp" -> component = "Workers Comp Insurance"

\* cscg[cscg["Component"].str.contains(needle, ...)]["Amount"].sum():
\* missing amounts are skipped, no matching row sums to 0
RECURSIVE SumAmount(_, _)
SumAmount(tbl, needle) ==
    IF tbl = <<>> THEN 0
    ELSE SumAmount(Tail(tbl), needle)
         + (IF Contains(Head(tbl).component, needle) /\ notna(Head(tbl).amount)
            THEN Head(tbl).amount[1] ELSE 0)

Term(t, ca, p, e, a, s) ==
    [contract_term |-> t, contract_amount |-> ca, period |-> p,
     expected |-> e, actual |-> a, source |-> s]

\* the contract terms of the management agreement
contract_terms(tbl) ==
    << Term("Management Fee (Article 7.1)", Num(Dollars(42000)), "Annual",
            Num(Dollars(21000)), SumAmount(tbl, "Management Fee"),
            "CSCG Relationship sheet"),
       Term("Office Payroll Reimbursement (Article 10.1)", None, "At cost",
            None, SumAmount(tbl, "Office Payroll"), "CSCG Relationship sheet"),
       Term("Operations Payroll Reimbursement (Article 10.1)", None, "At cost",
            None, SumAmount(tbl, "Operations Payroll"), "CSCG Relationship sheet"),
       Term("Workers Comp Insurance (Article 10.1)", None, "At cost",
            None, SumAmount(tbl, "Workers Comp"), "CSCG Relationship sheet"),
       Term("Land Lease - Techny (Ground Lease)", Num(Dollars(385000)), "Annual",
            Num(Dollars(192500)), Dollars(192500) + 35,
            "Expense Flow - Fixed Obligations"),
       Term("Bond Interest - DSRF (Bond Indenture)", Num(Dollars(376356)), "Annual",
            Num(Dollars(188178)), Dollars(188205) + 35,
            "Expense Flow - Fixed Obligations"),
       Term("Trustee Admin Fee - UMB", Num(Dollars(6000)), "Annual",
            Num(Dollars(3000)), Dollars(3000),
            "Expense Flow - Fixed Obligations") >>

----------------------------------------------------------------------------
(* Binary floating point.  The amounts of the scorecard are Python floats  *)
(* (IEEE 754 binary64, round to nearest, ties to even).  A natural number  *)
(* of any size is the sequence of its digits in base 2^15, lowest first,   *)
(* without leading zero digits; a float that is not negative is            *)
(* [m, e], standing for m * 2^e, with m = 0 or 2^52 <= m < 2^53 (a         *)
(* mantissa of 53 binary digits).                                          *)

RECURSIVE Pow2(_)
Pow2(n) == IF n = 0 THEN 1 ELSE 2 * Pow2(n - 1)

RECURSIVE BigNorm(_)
BigNorm(x) ==
    IF x = <<>> THEN <<>>
    ELSE IF x[Len(x)] = 0 THEN BigNorm(SubSeq(x, 1, Len(x) - 1))
    ELSE x

RECURSIVE BigOf(_)
BigOf(n) == IF n = 0 THEN <<>> ELSE <<n % 32768>> \o BigOf(n \div 32768)

Rest(x) == IF x = <<>> THEN <<>> ELSE Tail(x)
Low(x) == IF x = <<>> THEN 0 ELSE Head(x)

RECURSIVE BigAddCarry(_, _, _)
BigAddCarry(x, y, c) ==
    IF x = <<>> /\ y = <<>> THEN (IF c = 0 THEN <<>> ELSE <<c>>)
    ELSE LET t == Low(x) + Low(y) + c
         IN  <<t % 32768>> \o BigAddCarry(Rest(x), Rest(y), t \div 32768)

BigAdd(x, y) == BigAddCarry(x, y, 0)

RECURSIVE BigSubBorrow(_, _, _)
BigSubBorrow(x, y, b) ==
    IF x = <<>> THEN <<>>
    ELSE LET t == Low(x) - Low(y) - b
         IN  IF t < 0 THEN <<t + 32768>> \o BigSubBorrow(Rest(x), Rest(y), 1)
             ELSE <<t>> \o BigSubBorrow(Rest(x), Rest(y), 0)

\* x - y for x >= y
BigSub(x, y) == BigNorm(BigSubBorrow(x, y, 0))

\* -1, 0 or 1 as x is below, equal to or above y
RECURSIVE BigCmp(_, _)
BigCmp(x, y) ==
    IF Len(x) # Len(y) THEN (IF Len(x) < Len(y) THEN -1 ELSE 1)
    ELSE IF x = <<>> THEN 0
    ELSE IF x[Len(x)] # y[Len(y)] THEN (IF x[Len(x)] < y[Len(y)] THEN -1 ELSE 1)
    ELSE BigCmp(SubSeq(x, 1, Len(x) - 1), SubSeq(y, 1, Len(y) - 1))

\* x * s + c for a digit s
RECURSIVE BigMulSmall(_, _, _)
BigMulSmall(x, s, c) ==
    IF x = <<>> THEN (IF c = 0 THEN <<>> ELSE <<c>>)
    ELSE LET t == Head(x) * s + c
         IN  <<t % 32768>> \o BigMulSmall(Tail(x), s, t \div 32768)

RECURSIVE BigMul(_, _)
BigMul(x, y) ==
    IF x = <<>> \/ y = <<>> THEN <<>>
    ELSE BigNorm(BigAdd(BigMulSmall(x, Head(y), 0), <<0>> \o BigMul(x, Tail(y))))

\* <<quotient digits, remainder>> of x by s, 0 < s < 2^15
RECURSIVE BigDivMod(_, _)
BigDivMod(x, s) ==
    IF x = <<>> THEN << <<>>, 0 >>
    ELSE LET hi == BigDivMod(Tail(x), s)
             t == hi[2] * 32768 + Head(x)
         IN  << <<t \div s>> \o hi[1], t % s >>

\* x * 2^n
BigShl(x, n) ==
    IF x = <<>> THEN <<>>
    ELSE [i \in 1..(n \div 15) |-> 0] \o BigMulSmall(x, Pow2(n % 15), 0)

\* x \div 2^n
BigShr(x, n) ==
    IF Len(x) <= n \div 15 THEN <<>>
    ELSE BigNorm(BigDivMod(SubSeq(x, (n \div 15) + 1, Len(x)), Pow2(n % 15))[1])

RECURSIVE DigitBits(_)
DigitBits(d) == IF d = 0 THEN 0 ELSE 1 + DigitBits(d \div 2)

\* number of binary digits of x
BitLen(x) == IF x = <<>> THEN 0 ELSE 15 * (Len(x) - 1) + DigitBits(x[Len(x)])

IsOdd(x) == x # <<>> /\ x[1] % 2 = 1

Float(m, e) == [m |-> m, e |-> e]
FloatZero == Float(<<>>, 0)

\* the float nearest to n * 2^e for a natural number n, ties to the even
\* mantissa
RoundBig(n, e) ==
    LET len == BitLen(n)
        s == len - 53
        q == BigShr(n, s)
        r == BigSub(n, BigShl(q, s))
        c == BigCmp(r, BigShl(<<1>>, s - 1))
        up == c > 0 \/ (c = 0 /\ IsOdd(q))
        q1 == IF up THEN BigAdd(q, <<1>>) ELSE q
    IN  IF n = <<>> THEN FloatZero
        ELSE IF len <= 53 THEN Float(BigShl(n, 53 - len), e + s)
        ELSE IF BitLen(q1) > 53 THEN Float(BigShr(q1, 1), e + s + 1)
        ELSE Float(q1, e + s)

\* the float of an amount of c cents, c >= 0: the float nearest to c / 100,
\* as a literal such as 1.02 or a sheet cell is read.  The quotient of
\* c * 2^64 by 100 is rounded with the remainder as a sticky bit.
FloatOfCents(c) ==
    LET qr == BigDivMod(BigShl(BigOf(c), 64), 100)
        sticky == IF qr[2] > 0 THEN <<1>> ELSE <<>>
    IN  RoundBig(BigAdd(BigShl(BigNorm(qr[1]), 1), sticky), -65)

\* float addition x + y of floats that are not negative
FloatAdd(x, y) ==
    LET k == IF x.e < y.e THEN x.e ELSE y.e
    IN  IF x.m = <<>> THEN y
        ELSE IF y.m = <<>> THEN x
        ELSE RoundBig(BigAdd(BigShl(x.m, x.e - k), BigShl(y.m, y.e - k)), k)

\* abs(x - y) in float arithmetic for floats that are not negative
FloatAbsSub(x, y) ==
    LET k == IF x.e < y.e THEN x.e ELSE y.e
        a == BigShl(x.m, x.e - k)
        b == BigShl(y.m, y.e - k)
    IN  IF x.m = <<>> THEN y
        ELSE IF y.m = <<>> THEN x
        ELSE IF BigCmp(a, b) >= 0 THEN RoundBig(BigSub(a, b), k)
        ELSE RoundBig(BigSub(b, a), k)

\* -1, 0 or 1 as the exact quotient x / y lies below, on or above
\* n * 2^e, for floats x, y > 0 and a natural number n
QuotientCmp(x, y, n, e) ==
    LET el == x.e
        er == y.e + e
        k == IF el < er THEN el ELSE er
    IN  BigCmp(BigShl(x.m, el - k), BigShl(BigMul(n, y.m), er - k))

\* x / y <= t in float arithmetic, for floats x >= 0 and y, t > 0: the
\* quotient is rounded to t or below when it lies below the midpoint of t
\* and the next float, or on it when the mantissa of t is even
QuotientLe(x, y, t) ==
    LET c == QuotientCmp(x, y, BigAdd(BigShl(t.m, 1), <<1>>), t.e - 1)
    IN  x.m = <<>> \/ c < 0 \/ (c = 0 /\ ~IsOdd(t.m))

\* x / y < t in float arithmetic: the quotient is rounded below t when it
\* lies below the midpoint of t and the float before it, or on it when the
\* mantissa of t is odd
QuotientLt(x, y, t) ==
    LET c == QuotientCmp(x, y, BigSub(BigShl(t.m, 1), <<1>>), t.e - 1)
    IN  x.m = <<>> \/ c < 0 \/ (c = 0 /\ IsOdd(t.m))

\* abs(actual - expected) in float arithmetic, for amounts in cents
Deviation(actual, expected) ==
    IF (actual >= 0) = (expected >= 0)
    THEN FloatAbsSub(FloatOfCents(Abs(actual)), FloatOfCents(Abs(expected)))
    ELSE FloatAdd(FloatOfCents(Abs(actual)), FloatOfCents(Abs(expected)))

\* variant: the deviation is taken relative to |expected| whenever expected
\* is not zero
check_compliance_AbsDenominator(row) ==
    IF isna(row.expected) THEN "AUTO-PAY"
    ELSE LET diff == Deviation(row.actual, row.expected[1])
             PctLe(t) == IF row.expected[1] # 0
                         THEN QuotientLe(diff, FloatOfCents(Abs(row.expected[1])),
                                         FloatOfCents(t))
                         ELSE TRUE
         IN  IF PctLe(2) THEN "COMPLIANT"
             ELSE IF PctLe(10) THEN "MINOR VARIANCE"
             ELSE "NON-COMPLIANT"

\* variant: strict comparisons
check_compliance_Strict(row) ==
    IF isna(row.expected) THEN "AUTO-PAY"
    ELSE LET diff == Deviation(row.actual, row.expected[1])
             PctLt(t) == IF row.expected[1] > 0
                         THEN QuotientLt(diff, FloatOfCents(row.expected[1]),
                                         FloatOfCents(t))
                         ELSE TRUE
         IN  IF PctLt(2) THEN "COMPLIANT"
             ELSE IF PctLt(10) THEN "MINOR VARIANCE"
             ELSE "NON-COMPLIANT"

\* check_compliance(row).  diff and pct are floats; PctLe(t) is
\* pct <= t / 100 for pct = diff / expected if expected > 0 else 0, the
\* literals 0.02 and 0.10 being the floats nearest to 2/100 and 10/100
check_compliance(row) ==
    IF isna(row.expected) THEN "AUTO-PAY"
    ELSE LET diff == Deviation(row.actual, row.expected[1])
             PctLe(t) == IF row.expected[1] > 0
                         THEN QuotientLe(diff, FloatOfCents(row.expected[1]),
                                         FloatOfCents(t))
                         ELSE TRUE
         IN  IF PctLe(2) THEN "COMPLIANT"
             ELSE IF PctLe(10) THEN "MINOR VARIANCE"
             ELSE "NON-COMPLIANT"

\* df["Status"] = df.apply(check_compliance, axis=1)
compute_cscg_scorecard(tbl) ==
    [kind |-> "ok",
     rows |-> [k \in 1..Len(contract_terms(tbl)) |->
                 [contract_term |-> contract_terms(tbl)[k].contract_term,
                  contract_amount |-> contract_terms(tbl)[k].contract_amount,
                  period |-> contract_terms(tbl)[k].period,
                  expected |-> contract_terms(tbl)[k].expected,
                  actual |-> contract_terms(tbl)[k].actual,
                  source |-> contract_terms(tbl)[k].source,
                  status |-> check_compliance(contract_terms(tbl)[k])]]]

\* number of rows of the CSCG Relationship table
MaxCscgRows == 2

\* rows load_cscg_relationship can return
CscgLines ==
    {CscgLine("Management Fee", Num(Dollars(a))) :
        a \in {21000, 21500, 25000, 21420, 21421, 23100, 23101, 20580, 18899, 10500}}
    \cup {CscgLine("Management Fee", NaN),
          CscgLine("CSCG management fee - December", Num(Dollars(3500))),
          CscgLine("Office Payroll", Num(Dollars(40000))),
          CscgLine("Operations Payroll", Num(Dollars(90000))),
          CscgLine("Workers Comp Insurance", Num(Dollars(5000))),
          CscgLine("Accounting Services", Num(Dollars(1000)))}

\* one more component in the CSCG Relationship sheet
AppendCscgLine ==
    /\ pc = "edit"
    /\ Len(cscg) < MaxCscgRows
    /\ \E r \in CscgLines : cscg' = Append(cscg, r)
    /\ UNCHANGED <<scorecard, pc, reconVars, alertVars, entryVars, dollarVars,
                 gridVars, cacheVars, termVars, kpiVars>>

\* the CSCG Scorecard page calls compute_cscg_scorecard()
ViewScorecard ==
    /\ pc = "edit"
    /\ scorecard' = compute_cscg_scorecard(cscg)
    /\ pc' = "viewed"
    /\ UNCHANGED <<cscg, reconVars, alertVars, entryVars, dollarVars,
                 gridVars, cacheVars, termVars, kpiVars>>

NextScorecard == AppendCscgLine \/ ViewScorecard

SpecScorecard == Init /\ [][NextScorecard]_vars

----------------------------------------------------------------------------
(* C16 *)

ScorecardShown == pc = "viewed" /\ scorecard.kind = "ok"

\* |actual - expected| / expected <= p / 100, for an expected amount e # 0
DeviationAtMost(actual, e, p) ==
    IF e > 0 THEN 100 * Abs(actual - e) <= p * e ELSE TRUE

\* the three worked examples for an expected amount of 21000
ExampleStatuses(x) ==
    x.expected = Num(Dollars(21000)) =>
        /\ x.actual = Dollars(21000) => x.status = "COMPLIANT"
        /\ x.actual = Dollars(21500) => x.status = "MINOR VARIANCE"
        /\ x.actual = Dollars(25000) => x.status = "NON-COMPLIANT"

\* C16: a scorecard row without an expected amount is AUTO-PAY whatever the
\* actual amount; otherwise, with d = |actual - expected| / expected, the row
\* is COMPLIANT when d <= 2%, MINOR VARIANCE when 2% < d <= 10% and
\* NON-COMPLIANT when d > 10%; for expected 21000 the actuals 21000, 21500
\* and 25000 give COMPLIANT, MINOR VARIANCE and NON-COMPLIANT.
C16_ComplianceBands ==
    ScorecardShown =>
        \A k \in 1..Len(scorecard.rows) :
            LET x == scorecard.rows[k]
            IN  /\ isna(x.expected) => x.status = "AUTO-PAY"
                /\ (notna(x.expected) /\ x.expected[1] # 0) =>
                    /\ x.status = "COMPLIANT" <=> DeviationAtMost(x.actual, x.expected[1], 2)
                    /\ x.status = "MINOR VARIANCE" <=>
                        (~DeviationAtMost(x.actual, x.expected[1], 2)
                            /\ DeviationAtMost(x.actual, x.expected[1], 10))
                    /\ x.status = "NON-COMPLIANT" <=>
                        ~DeviationAtMost(x.actual, x.expected[1], 10)
                /\ ExampleStatuses(x)

\* the scorecard shows a management fee of 21420, exactly 2% over 21000, as
\* COMPLIANT beside an AUTO-PAY payroll row with a nonzero actual
C16_Witness ==
    /\ ScorecardShown
    /\ \E k \in 1..Len(scorecard.rows) :
        /\ scorecard.rows[k].expected = Num(Dollars(21000))
        /\ scorecard.rows[k].actual = Dollars(21420)
        /\ scorecard.rows[k].status = "COMPLIANT"
    /\ \E k \in 1..Len(scorecard.rows) :
        /\ isna(scorecard.rows[k].expected)
        /\ scorecard.rows[k].actual > 0
        /\ scorecard.rows[k].status = "AUTO-PAY"

----------------------------------------------------------------------------
(* load_proposed_entries: the adjusting journal entries.  A cell is NaN or *)
(* <<v>>; entry numbers, dates and memos are texts.  A Debit / Credit cell *)
(* is blank, a number <<n>> or a text <<"text", s>>.                       *)

\* a text in a Debit / Credit cell
TextCell(s) == <<"text", s>>

\* texts that pd.read_excel reads as missing (keep_default_na=True)
na_values ==
    {"", "#N/A", "#N/A N/A", "#NA", "-1.#IND", "-1.#QNAN", "-NaN", "-nan",
     "1.#IND", "1.#QNAN", "<NA>", "N/A", "NA", "NULL", "NaN", "None", "n/a",
     "nan", "null"}

\* one text cell as pd.read_excel hands it over
read_cell(x) == IF notna(x) /\ x[1] \in na_values THEN NaN ELSE x

\* the frame has a column 11 when a cell of that column, or of one to its
\* right, is used: read_excel returns the used range of the sheet
HasColumn11(sh) == \E k \in 1..Len(sh) : notna(sh[k].credit)

\* one row of the "Proposed Entries" sheet: columns 1, 3, 5, 7, 9, 11
EntryLine(n, d, m, a, dr, cr) ==
    [num |-> n, date |-> d, memo |-> m, account |-> a, debit |-> dr, credit |-> cr]

\* header_rows, as pandas row labels (the first sheet row has label 0)
header_rows == {0, 1, 2, 35, 67}

\* data.drop(index=header_rows), dropna(subset=["Account"]) and
\* data[data["Account"] != "Account"]: positions of the rows that are kept
KeptRows(sh) ==
    SelectSeq(Indices(sh),
              LAMBDA k : /\ (k - 1) \notin header_rows
                         /\ notna(read_cell(sh[k].account))
                         /\ sh[k].account # <<"Account">>)

\* variant: Series.ffill(limit=1), a value is carried one row only
RECURSIVE ffill_LimitOne(_)
ffill_LimitOne(col) ==
    IF col = <<>> THEN <<>>
    ELSE LET front == SubSeq(col, 1, Len(col) - 1)
             last == col[Len(col)]
         IN  Append(ffill_LimitOne(front),
                    IF notna(last) \/ front = <<>> THEN last ELSE front[Len(front)])

\* Series.ffill(): a missing cell takes the filled value of the row above
RECURSIVE ffill(_)
ffill(col) ==
    IF col = <<>> THEN <<>>
    ELSE LET filled == ffill(SubSeq(col, 1, Len(col) - 1))
             last == col[Len(col)]
         IN  Append(filled,
                    IF notna(last) \/ filled = <<>> THEN last ELSE filled[Len(filled)])

\* pd.to_datetime(errors="coerce") of one cell: a text that is no date is NaT
to_datetime(d) == IF d = <<"TBD">> THEN NaN ELSE d

\* pd.to_numeric(errors="coerce").fillna(0) of one cell
NumericOrZero(x) == IF Len(x) = 1 THEN x[1] ELSE 0

\* Outcome of one call.  A frame that ends left of column 11 has no such
\* column and df[[1, 3, 5, 7, 9, 11]] raises KeyError.  src_row records the
\* sheet row an entry line was read from.
load_proposed_entries(sh) ==
    IF ~HasColumn11(sh) THEN [kind |-> "KeyError", rows |-> <<>>]
    ELSE LET kept == KeptRows(sh)
             nums == ffill([i \in 1..Len(kept) |-> read_cell(sh[kept[i]].num)])
             dates == ffill([i \in 1..Len(kept) |-> read_cell(sh[kept[i]].date)])
             memos == ffill([i \in 1..Len(kept) |-> read_cell(sh[kept[i]].memo)])
         IN  [kind |-> "ok",
              rows |-> [i \in 1..Len(kept) |->
                          [num |-> nums[i],
                           date |-> to_datetime(dates[i]),
                           memo |-> memos[i],
                           account |-> read_cell(sh[kept[i]].account)[1],
                           debit |-> NumericOrZero(sh[kept[i]].debit),
                           credit |-> NumericOrZero(sh[kept[i]].credit),
                           src_row |-> kept[i]]]]

\* number of rows of the "Proposed Entries" sheet
MaxSheetRows == 6

\* what the rows above the first entry can hold: a blank row, a row that
\* looks like an entry line, or the column headings
TopRows ==
    {EntryLine(NaN, NaN, NaN, NaN, NaN, NaN),
     EntryLine(<<"9">>, <<"2025-06-30">>, <<"Opening">>, <<"Cash">>, Num(900), NaN),
     EntryLine(<<"Num">>, <<"Date">>, <<"Memo">>, <<"Account">>,
               TextCell("Debit"), TextCell("Credit"))}

\* what the rows below can hold
EntryLines ==
    {EntryLine(<<"1">>, <<"2025-07-31">>, <<"Accrue rent">>, <<"Rent Expense">>, Num(500), NaN),
     EntryLine(NaN, NaN, NaN, <<"Cash">>, NaN, Num(500)),
     EntryLine(<<"2">>, <<"2025-08-31">>, <<"Payroll">>, <<"Payroll Expense">>, Num(300), NaN),
     EntryLine(<<"2">>, NaN, <<"Payroll">>, <<"Payroll Expense">>, Num(300), NaN),
     EntryLine(<<"2">>, <<"2025-08-31">>, NaN, <<"Payroll Expense">>, Num(300), NaN),
     EntryLine(<<"3">>, <<"n/a">>, <<"Reclass">>, <<"Ice Revenue">>, NaN, Num(100)),
     EntryLine(<<"3">>, <<"TBD">>, <<"Reclass">>, <<"Ice Revenue">>, NaN, Num(100)),
     EntryLine(<<"4">>, <<"2025-08-31">>, <<"Void">>, NaN, NaN, NaN),
     EntryLine(NaN, NaN, NaN, NaN, NaN, NaN),
     EntryLine(<<"Num">>, <<"Date">>, <<"Memo">>, <<"Account">>,
               TextCell("Debit"), TextCell("Credit"))}

\* one more row at the bottom of the sheet
AppendSheetRow ==
    /\ pc = "edit"
    /\ Len(sheet) < MaxSheetRows
    /\ \E r \in (IF Len(sheet) < 3 THEN TopRows ELSE EntryLines) :
        sheet' = Append(sheet, r)
    /\ UNCHANGED <<entries, pc, reconVars, alertVars, scoreVars, dollarVars,
                 gridVars, cacheVars, termVars, kpiVars>>

\* the Reconciliation page calls load_proposed_entries()
ViewEntries ==
    /\ pc = "edit"
    /\ entries' = load_proposed_entries(sheet)
    /\ pc' = "viewed"
    /\ UNCHANGED <<sheet, reconVars, alertVars, scoreVars, dollarVars,
                 gridVars, cacheVars, termVars, kpiVars>>

NextEntries == AppendSheetRow \/ ViewEntries

SpecEntries == Init /\ [][NextEntries]_vars

----------------------------------------------------------------------------
(* C17 *)

EntriesReturned == pc = "viewed" /\ entries.kind = "ok"

EntryIdx == 1..Len(entries.rows)

\* the sheet row an entry line was read from
RawRow(i) == sheet[entries.rows[i].src_row]

\* the sheet cell of a field of entry line i, as pd.read_excel reads it
Raw(i, field) ==
    CASE field = "num" -> read_cell(RawRow(i).num)
      [] field = "date" -> read_cell(RawRow(i).date)
      [] field = "memo" -> read_cell(RawRow(i).memo)

\* the value a sheet cell has in the returned table
Shown(v, field) == IF field = "date" THEN to_datetime(v) ELSE v

Got(i, field) ==
    CASE field = "num" -> entries.rows[i].num
      [] field = "date" -> entries.rows[i].date
      [] field = "memo" -> entries.rows[i].memo

\* the retained rows at or above i whose field is not blank
Donors(i, field) == {j \in 1..i : notna(Raw(j, field))}

\* C17: in the returned entries, for each of Num, Date and Memo, a row whose
\* cell is blank has the value of the nearest preceding retained row whose
\* cell is not blank, a row whose cell is not blank keeps its own value, and
\* three consecutive retained rows with an entry number on the first only
\* all carry that number.
C17_ForwardFill ==
    EntriesReturned =>
        /\ \A i \in EntryIdx : \A field \in {"num", "date", "memo"} :
            Donors(i, field) # {} =>
                Got(i, field) = Shown(Raw(Max(Donors(i, field)), field), field)
        /\ \A i \in EntryIdx :
            (/\ i + 2 \in EntryIdx
             /\ notna(Raw(i, "num"))
             /\ isna(Raw(i + 1, "num"))
             /\ isna(Raw(i + 2, "num")))
            => (/\ entries.rows[i + 1].num = Raw(i, "num")
                /\ entries.rows[i + 2].num = Raw(i, "num"))

\* a three-row entry with number, date and memo on its first row only, below
\* a row of the heading block that carries other values
C17_Witness ==
    /\ EntriesReturned
    /\ Len(entries.rows) = 3
    /\ notna(sheet[1].num)
    /\ RawRow(1).num = <<"1">> /\ isna(RawRow(2).num) /\ isna(RawRow(3).num)
    /\ \A i \in EntryIdx :
        /\ entries.rows[i].num = <<"1">>
        /\ entries.rows[i].date = <<"2025-07-31">>
        /\ entries.rows[i].memo = <<"Accrue rent">>

----------------------------------------------------------------------------
(* _clean_dollar: parse a dollar value.  A text is the sequence of its     *)
(* characters; a parsed number is an exact ratio <<n, d>> in lowest terms, *)
(* with d > 0, or the float -0.0, which is a value of its own.             *)

\* the float -0.0: it equals 0.0 in arithmetic and is written "-0.0"
NegZero == <<0, -1>>

Digits == {"0", "1", "2", "3", "4", "5", "6", "7", "8", "9"}

DigitVal(c) ==
    CASE c = "0" -> 0 [] c = "1" -> 1 [] c = "2" -> 2 [] c = "3" -> 3 [] c = "4" -> 4
      [] c = "5" -> 5 [] c = "6" -> 6 [] c = "7" -> 7 [] c = "8" -> 8 [] c = "9" -> 9

\* str.upper() of one character
Upper(c) ==
    CASE c = "t" -> "T" [] c = "b" -> "B" [] c = "d" -> "D" [] c = "m" -> "M"
      [] c = "o" -> "O" [] c = "n" -> "N" [] c = "h" -> "H" [] c = "x" -> "X"
      [] c = "f" -> "F" [] c = "r" -> "R" [] c = "a" -> "A" [] c = "s" -> "S"
      [] c = "e" -> "E" [] OTHER -> c

upper(t) == [i \in 1..Len(t) |-> Upper(t[i])]

\* str.strip(): leading and trailing blanks removed
RECURSIVE lstrip(_)
lstrip(t) == IF t # <<>> /\ Head(t) = " " THEN lstrip(Tail(t)) ELSE t

RECURSIVE rstrip(_)
rstrip(t) ==
    IF t # <<>> /\ t[Len(t)] = " " THEN rstrip(SubSeq(t, 1, Len(t) - 1)) ELSE t

strip(t) == rstrip(lstrip(t))

\* str.replace(c, ""): every occurrence of the character removed
Remove(t, c) == SelectSeq(t, LAMBDA x : x # c)

\* the texts that mean "no amount": ("TBD", "", "$200/MONTH", "$200/MONTH")
NullTexts ==
    {<<"T", "B", "D">>, <<>>, <<"$", "2", "0", "0", "/", "M", "O", "N", "T", "H">>}

\* s.replace("$", "", 1) if s.startswith("$") else s
DropLeadingDollar(t) == IF t # <<>> /\ Head(t) = "$" THEN Tail(t) ELSE t

\* length of the longest prefix of t made of characters of S
RECURSIVE Run(_, _)
Run(t, S) == IF t # <<>> /\ Head(t) \in S THEN 1 + Run(Tail(t), S) ELSE 0

\* variant: the pattern r"^\$?(\d+\.?\d*)", without the separator
Match_NoSeparators(t) ==
    LET u == DropLeadingDollar(t)
        n == Run(u, Digits)
        rest == SubSeq(u, n + 1, Len(u))
        dot == IF rest # <<>> /\ Head(rest) = "." THEN 1 ELSE 0
        frac == Run(SubSeq(rest, dot + 1, Len(rest)), Digits)
    IN  IF n = 0 THEN [matched |-> FALSE, group |-> <<>>]
        ELSE [matched |-> TRUE, group |-> SubSeq(u, 1, n + dot + frac)]

\* re.match(r"^\$?([\d,]+\.?\d*)", t): group(1), or no match
Match(t) ==
    LET u == DropLeadingDollar(t)
        n == Run(u, Digits \cup {","})
        rest == SubSeq(u, n + 1, Len(u))
        dot == IF rest # <<>> /\ Head(rest) = "." THEN 1 ELSE 0
        frac == Run(SubSeq(rest, dot + 1, Len(rest)), Digits)
    IN  IF n = 0 THEN [matched |-> FALSE, group |-> <<>>]
        ELSE [matched |-> TRUE, group |-> SubSeq(u, 1, n + dot + frac)]

RECURSIVE IntOf(_)
IntOf(ds) == IF ds = <<>> THEN 0 ELSE 10 * IntOf(SubSeq(ds, 1, Len(ds) - 1)) + DigitVal(ds[Len(ds)])

RECURSIVE Pow10(_)
Pow10(k) == IF k = 0 THEN 1 ELSE 10 * Pow10(k - 1)

\* float(t): surrounding blanks and a sign are accepted, then digits with at
\* most one point and at least one digit, then an optional exponent (e, a
\* sign, digits); anything else is a ValueError.  Zero after a minus sign is
\* the float -0.0.
float(t) ==
    LET u == strip(t)
        signed == u # <<>> /\ Head(u) \in {"-", "+"}
        body == IF signed THEN Tail(u) ELSE u
        whole == Run(body, Digits)
        rest == SubSeq(body, whole + 1, Len(body))
        dot == IF rest # <<>> /\ Head(rest) = "." THEN 1 ELSE 0
        frac == Run(SubSeq(rest, dot + 1, Len(rest)), Digits)
        digits == SubSeq(body, 1, whole) \o SubSeq(rest, dot + 1, dot + frac)
        tail == SubSeq(rest, dot + frac + 1, Len(rest))
        esigned == Len(tail) > 1 /\ tail[2] \in {"-", "+"}
        edigits == SubSeq(tail, IF esigned THEN 3 ELSE 2, Len(tail))
        hasexp == /\ tail # <<>> /\ Head(tail) \in {"e", "E"}
                  /\ edigits # <<>> /\ Run(edigits, Digits) = Len(edigits)
        exponent == IF tail = <<>> THEN 0
                    ELSE (IF esigned /\ tail[2] = "-" THEN -1 ELSE 1) * IntOf(edigits)
        negative == signed /\ Head(u) = "-"
        mantissa == (IF negative THEN -1 ELSE 1) * IntOf(digits)
    IN  IF whole + frac > 0 /\ (tail = <<>> \/ hasexp)
        THEN [ok |-> TRUE,
              value |-> IF negative /\ mantissa = 0 THEN NegZero
                        ELSE IF exponent >= frac
                        THEN Ratio(mantissa * Pow10(exponent - frac), 1)
                        ELSE Ratio(mantissa, Pow10(frac - exponent))]
        ELSE [ok |-> FALSE, value |-> <<>>]

Returns(v) == [kind |-> "ok", value |-> v]
Raises(exc) == [kind |-> exc, value |-> <<>>]

DigitChar(v) ==
    CASE v = 0 -> "0" [] v = 1 -> "1" [] v = 2 -> "2" [] v = 3 -> "3" [] v = 4 -> "4"
      [] v = 5 -> "5" [] v = 6 -> "6" [] v = 7 -> "7" [] v = 8 -> "8" [] v = 9 -> "9"

\* the decimal digits of a natural number
RECURSIVE DigitsOf(_)
DigitsOf(m) == IF m < 10 THEN <<DigitChar(m)>> ELSE Append(DigitsOf(m \div 10), DigitChar(m % 10))

\* the number of decimal places of n / d: the least k with d dividing 10^k
RECURSIVE Places(_, _)
Places(d, k) == IF Pow10(k) % d = 0 THEN k ELSE Places(d, k + 1)

\* the last k digits of m, with leading zeros
RECURSIVE LastDigits(_, _)
LastDigits(m, k) ==
    IF k = 0 THEN <<>> ELSE Append(LastDigits(m \div 10, k - 1), DigitChar(m % 10))

\* str(x) of a float x = n / d below 10^16 in magnitude: the shortest
\* decimal, with ".0" after a whole number, and in exponent form
\* (d[.ddd]e-XX) when the first significant digit is past the fourth
\* decimal place; -0.0 is written with its sign
str_float(x) ==
    IF x = NegZero THEN <<"-", "0", ".", "0">> ELSE
    LET k == Places(x[2], 0)
        m == (Abs(x[1]) * Pow10(k)) \div x[2]
        sig == DigitsOf(m)
        sign == IF x[1] < 0 THEN <<"-">> ELSE <<>>
        e == k - Len(sig) + 1
    IN  IF m # 0 /\ e > 4
        THEN sign \o <<Head(sig)>>
                  \o (IF Len(sig) > 1 THEN <<".">> \o Tail(sig) ELSE <<>>)
                  \o <<"e", "-">> \o LastDigits(e, 2)
        ELSE sign \o DigitsOf(m \div Pow10(k)) \o <<".">>
                  \o (IF k = 0 THEN <<"0">> ELSE LastDigits(m, k))

\* variant: a missing or empty cell counts as zero dollars
_clean_dollar_BlankIsZero(val) ==
    IF val.kind = "nan" THEN Returns(<<0, 1>>)
    ELSE LET s == strip(val.text)
             m == Match(DropLeadingDollar(s))
         IN  IF s = <<>> THEN Returns(<<0, 1>>)
             ELSE IF upper(s) \in NullTexts THEN Returns(None)
             ELSE IF m.matched
             THEN (IF float(Remove(m.group, ",")).ok
                   THEN Returns(float(Remove(m.group, ",")).value)
                   ELSE Raises("ValueError"))
             ELSE (IF float(Remove(Remove(s, ","), "$")).ok
                   THEN Returns(float(Remove(Remove(s, ","), "$")).value)
                   ELSE Returns(None))

\* Outcome of one call: the returned value (None or a number), or the
\* exception that leaves the function.  float() of the matched group is not
\* inside the try.
_clean_dollar(val) ==
    IF val.kind = "nan" THEN Returns(None)
    ELSE LET s == strip(val.text)
             m == Match(DropLeadingDollar(s))
         IN  IF upper(s) \in NullTexts THEN Returns(None)
             ELSE IF m.matched
             THEN (IF float(Remove(m.group, ",")).ok
                   THEN Returns(float(Remove(m.group, ",")).value)
                   ELSE Raises("ValueError"))
             ELSE (IF float(Remove(Remove(s, ","), "$")).ok
                   THEN Returns(float(Remove(Remove(s, ","), "$")).value)
                   ELSE Returns(None))

----------------------------------------------------------------------------
(* Cells of the Cost and $$ columns *)

\* number of characters typed into a cell
MaxCellLen == 4

\* characters that are typed
Alphabet == {"$", ",", ".", "5", "0", " ", "-", "x"}

\* numeric tokens with their values
Token(t, v) == [chars |-> t, value |-> v]
Tokens ==
    {Token(<<"5">>, <<5, 1>>),
     Token(<<"5", ",", "0", "0", "0">>, <<5000, 1>>),
     Token(<<"3", ",", "6", "6", "7">>, <<3667, 1>>),
     Token(<<"1", "2", "5", "0", ".", "5", "0">>, <<2501, 2>>)}

\* parenthesised annotations
Annotations ==
    {<<" ", "(", "$", "5", "0", "0", " ", "f", "o", "r", " ", "D", "a", "s", "h", "e", "r",
       " ", "B", "o", "a", "r", "d", ")">>,
     <<"(", "x", ")">>,
     <<" ", "(", "5", ".", "0", ")">>,
     <<" ", " ", "(", "T", "B", "D", ")">>}

\* [$] token annotation
AnnotatedTexts ==
    {d \o tok.chars \o ann : d \in {<<>>, <<"$">>}, tok \in Tokens, ann \in Annotations}

\* cells that are pasted whole: annotated amounts, placeholders, numbers
PastedCells ==
    {Cell("str", t) : t \in AnnotatedTexts}
    \cup {Cell("str", <<>>),
          Cell("str", <<"T", "B", "D">>),
          Cell("str", <<"t", "b", "d">>),
          Cell("str", <<" ", "T", "B", "D", " ">>),
          Cell("str", <<"$", "2", "0", "0", "/", "m", "o", "n", "t", "h">>),
          Cell("num", <<"3", "6", "6", "7">>),
          Cell("num", <<"2", "5", "0", ".", "5">>),
          Cell("num", <<"-", "5", ".", "0">>),
          Cell("str", <<"0", ".", "0", "0", "0", "5">>),
          Cell("str", <<"0", ".", "0", "0", "0", "0", "5">>),
          Cell("str", <<"$", "0", ".", "0", "0", "0", "0", "2", "5">>),
          Cell("str", <<"-", "0", ".", "0", "0", "0", "0", "5">>),
          Cell("num", <<"5", "e", "-", "0", "5">>)}

\* one more character typed into the cell
TypeChar ==
    /\ pc = "edit"
    /\ cell.kind \in {"nan", "str"}
    /\ Len(cell.text) < MaxCellLen
    /\ \E c \in Alphabet : cell' = Cell("str", Append(cell.text, c))
    /\ UNCHANGED <<amount, again, pc, reconVars, alertVars, scoreVars, entryVars,
                 gridVars, cacheVars, termVars, kpiVars>>

\* a value pasted into the empty cell
PasteCell ==
    /\ pc = "edit"
    /\ cell = BlankCell
    /\ \E c \in PastedCells : cell' = c
    /\ UNCHANGED <<amount, again, pc, reconVars, alertVars, scoreVars, entryVars,
                 gridVars, cacheVars, termVars, kpiVars>>

\* load_current_ads / load_done_deals_prospects apply _clean_dollar to the cell
CleanCell ==
    /\ pc = "edit"
    /\ amount' = _clean_dollar(cell)
    /\ pc' = "viewed"
    /\ UNCHANGED <<cell, again, reconVars, alertVars, scoreVars, entryVars,
                 gridVars, cacheVars, termVars, kpiVars>>

\* the number that was returned is written out with str() and cleaned again
CleanAgain ==
    /\ pc = "viewed"
    /\ amount.kind = "ok" /\ notna(amount.value)
    /\ again = NoAmount
    /\ again' = _clean_dollar(Cell("str", str_float(amount.value)))
    /\ UNCHANGED <<cell, amount, pc, reconVars, alertVars, scoreVars, entryVars,
                 gridVars, cacheVars, termVars, kpiVars>>

NextDollar == TypeChar \/ PasteCell \/ CleanCell \/ CleanAgain

SpecDollar == Init /\ [][NextDollar]_vars

----------------------------------------------------------------------------
(* C18 *)

Cleaned == pc = "viewed" /\ amount.kind # "none"

\* C18 as stated: for every cell (missing, a number, any text) _clean_dollar
\* returns a number or null and never raises.
C18_Total == Cleaned => amount.kind = "ok"

----------------------------------------------------------------------------
(* C19 *)

\* C19: for a text made of an optional leading "$", a numeric token that may
\* contain thousands separators and a trailing parenthesised annotation,
\* _clean_dollar returns the value of the token; "$3,667 ($500 for Dasher
\* Board)" gives 3667.
C19_LeadingToken ==
    Cleaned =>
        \A d \in {<<>>, <<"$">>}, tok \in Tokens, ann \in Annotations :
            (cell.kind = "str" /\ cell.text = d \o tok.chars \o ann)
            => amount = Returns(tok.value)

\* "$3,667 ($500 for Dasher Board)" has been cleaned to 3667
C19_Witness ==
    /\ Cleaned
    /\ cell.text = <<"$", "3", ",", "6", "6", "7", " ", "(", "$", "5", "0", "0", " ",
                     "f", "o", "r", " ", "D", "a", "s", "h", "e", "r", " ",
                     "B", "o", "a", "r", "d", ")">>
    /\ amount = Returns(<<3667, 1>>)

----------------------------------------------------------------------------
(* C20 *)

Blank(t) == \A i \in 1..Len(t) : t[i] = " "

\* C20: _clean_dollar returns null for a missing cell, for an empty or
\* whitespace-only text and for the text "TBD".
C20_NullInputs ==
    (/\ Cleaned
     /\ \/ cell.kind = "nan"
        \/ cell.kind = "str" /\ Blank(cell.text)
        \/ cell.kind = "str" /\ cell.text = <<"T", "B", "D">>)
    => amount = Returns(None)

\* a cell of two blanks has been cleaned to null
C20_Witness ==
    /\ Cleaned
    /\ cell = Cell("str", <<" ", " ">>)
    /\ amount = Returns(None)

----------------------------------------------------------------------------
(* C21 *)

\* the returned number has been written out and cleaned again
CleanedAgain == pc = "viewed" /\ again.kind # "none"

\* C21 as stated: whenever _clean_dollar returns a number for a cell,
\* _clean_dollar of the string form of that number returns the same number.
C21_Idempotent == CleanedAgain => again = amount

----------------------------------------------------------------------------
(* Loaders that read fixed rows and columns of a sheet.  pd.read_excel(..., *)
(* header=None) returns a frame of the used range of the sheet; positions  *)
(* are counted from 0.  The cell at row r, column c holds the number       *)
(* 100 * r + c, unless it is the first cell of a row of g.blanks (blank)   *)
(* or of row g.header (the text "Approval Method").                        *)

GridCell(g, r, c) == IF c = 0 /\ r \in g.blanks THEN NaN ELSE Num(100 * r + c)

\* the cell holds the text "Approval Method"
IsHeading(g, r, c) == c = 0 /\ r = g.header

Loaded(l, k, rs) == [loader |-> l, kind |-> k, rows |-> rs]

\* rows_of_interest of load_scoreboard_10yr
rows_of_interest == <<10, 18, 23, 25, 29, 30, 31, 33>>

\* df.iloc[row_idx, 6:16]: the slice is cut at the last column
YearCells(g, r) == [i \in 1..(IF g.ncols >= 16 THEN 10 ELSE Max({0, g.ncols - 6})) |->
                        GridCell(g, r, 5 + i)]

\* load_scoreboard_10yr: read_excel raises ValueError when no sheet is named
\* "Sheet1"; df.iloc[row_idx, ...] and df.iloc[row_idx, 17] raise IndexError
\* for a position outside the frame
load_scoreboard_10yr(g) ==
    IF ~g.named THEN Loaded("load_scoreboard_10yr", "ValueError", <<>>)
    ELSE IF g.nrows <= rows_of_interest[1] \/ g.ncols <= 17
    THEN Loaded("load_scoreboard_10yr", "IndexError", <<>>)
    ELSE IF \E k \in 1..Len(rows_of_interest) : g.nrows <= rows_of_interest[k]
    THEN Loaded("load_scoreboard_10yr", "IndexError", <<>>)
    ELSE Loaded("load_scoreboard_10yr", "ok",
                [k \in 1..Len(rows_of_interest) |->
                    [row |-> rows_of_interest[k],
                     years |-> YearCells(g, rows_of_interest[k]),
                     total |-> GridCell(g, rows_of_interest[k], 17)]])

\* df.iloc[35:40], cut at the last row, as the rows' positions
SummarySlice(g) == [i \in 1..(IF g.nrows >= 40 THEN 5 ELSE Max({0, g.nrows - 35})) |-> 34 + i]

\* dropna(subset=["Approval Method"]), then the rows that echo the heading
\* are removed
SummaryKept(g) ==
    SelectSeq(SummarySlice(g),
              LAMBDA r : notna(GridCell(g, r, 0)) /\ ~IsHeading(g, r, 0))

\* load_expense_flow_summary: naming six columns raises ValueError unless
\* the frame has six columns; reset_index renumbers the rows that are kept
load_expense_flow_summary(g) ==
    IF ~g.named THEN Loaded("load_expense_flow_summary", "ValueError", <<>>)
    ELSE IF g.ncols # 6 THEN Loaded("load_expense_flow_summary", "ValueError", <<>>)
    ELSE Loaded("load_expense_flow_summary", "ok",
                [i \in 1..Len(SummaryKept(g)) |->
                    [row |-> SummaryKept(g)[i],
                     approval_method |-> GridCell(g, SummaryKept(g)[i], 0),
                     ytd_amount |-> GridCell(g, SummaryKept(g)[i], 1),
                     pct_of_total |-> GridCell(g, SummaryKept(g)[i], 2)]])

\* load_weekday_ice_summary: rows 47..49, columns 0..6 and 11..16, each read
\* with df.iloc[row_idx, c]
load_weekday_ice_summary(g) ==
    IF ~g.named THEN Loaded("load_weekday_ice_summary", "ValueError", <<>>)
    ELSE IF g.nrows <= 49 \/ g.ncols <= 16
    THEN Loaded("load_weekday_ice_summary", "IndexError", <<>>)
    ELSE Loaded("load_weekday_ice_summary", "ok",
                [i \in 1..18 |->
                    LET r == 47 + ((i - 1) \div 6)
                        d == ((i - 1) % 6) + 1
                    IN  [club |-> GridCell(g, r, 0),
                         day |-> d,
                         current_hours |-> GridCell(g, r, d),
                         proposed_hours |-> GridCell(g, r, 10 + d)]])

\* rows and columns of the sheets that are explored
MaxGridRows == 50
MaxGridCols == 18

\* the sheet has one more row
AddGridRow ==
    /\ pc = "edit"
    /\ grid.nrows < MaxGridRows
    /\ grid' = [grid EXCEPT !.nrows = @ + 1]
    /\ UNCHANGED <<loaded, pc, reconVars, alertVars, scoreVars, entryVars, dollarVars,
                   cacheVars, termVars, kpiVars>>

\* the sheet has one more column
AddGridColumn ==
    /\ pc = "edit"
    /\ grid.ncols < MaxGridCols
    /\ grid' = [grid EXCEPT !.ncols = @ + 1]
    /\ UNCHANGED <<loaded, pc, reconVars, alertVars, scoreVars, entryVars, dollarVars,
                   cacheVars, termVars, kpiVars>>

\* first cells of the summary rows that may be left blank
BlankableRows == {35, 36, 37}

\* the first cell of a summary row is cleared
BlankFirstCell ==
    /\ pc = "edit"
    /\ grid.ncols >= 2
    /\ \E r \in BlankableRows \ (grid.blanks \cup {grid.header}) :
        /\ r < grid.nrows
        /\ grid' = [grid EXCEPT !.blanks = @ \cup {r}]
    /\ UNCHANGED <<loaded, pc, reconVars, alertVars, scoreVars, entryVars, dollarVars,
                   cacheVars, termVars, kpiVars>>

\* the heading "Approval Method" is written over the first cell of row 35
WriteHeading ==
    /\ pc = "edit"
    /\ grid.header = -1
    /\ 35 < grid.nrows /\ grid.ncols >= 1
    /\ grid' = [grid EXCEPT !.header = 35, !.blanks = @ \ {35}]
    /\ UNCHANGED <<loaded, pc, reconVars, alertVars, scoreVars, entryVars, dollarVars,
                   cacheVars, termVars, kpiVars>>

\* the sheet is renamed in the workbook
RenameSheet ==
    /\ pc = "edit"
    /\ grid.named
    /\ grid' = [grid EXCEPT !.named = FALSE]
    /\ UNCHANGED <<loaded, pc, reconVars, alertVars, scoreVars, entryVars, dollarVars,
                   cacheVars, termVars, kpiVars>>

\* a page calls one of the three loaders on the sheet
LoadFixedOffsets ==
    /\ pc = "edit"
    /\ \/ loaded' = load_scoreboard_10yr(grid)
       \/ loaded' = load_expense_flow_summary(grid)
       \/ loaded' = load_weekday_ice_summary(grid)
    /\ pc' = "viewed"
    /\ UNCHANGED <<grid, reconVars, alertVars, scoreVars, entryVars, dollarVars,
                   cacheVars, termVars, kpiVars>>

NextGrid ==
    \/ AddGridRow \/ AddGridColumn \/ BlankFirstCell \/ WriteHeading
    \/ RenameSheet \/ LoadFixedOffsets

SpecGrid == Init /\ [][NextGrid]_vars

----------------------------------------------------------------------------
(* C22 *)

\* the sheet lacks a row or a column the loader reads, or has been renamed
Shifted ==
    \/ ~grid.named
    \/ loaded.loader = "load_scoreboard_10yr" /\ (grid.nrows < 34 \/ grid.ncols < 18)
    \/ loaded.loader = "load_expense_flow_summary" /\ (grid.nrows < 40 \/ grid.ncols < 6)
    \/ loaded.loader = "load_weekday_ice_summary" /\ (grid.nrows < 50 \/ grid.ncols < 17)

\* C22 as stated: a loader whose sheet, header row or fixed-offset range is
\* absent or shifted returns an empty table and does not raise; this holds
\* for load_scoreboard_10yr, load_expense_flow_summary and
\* load_weekday_ice_summary.
C22_SoftFailure ==
    (pc = "viewed" /\ loaded.kind # "none" /\ Shifted)
    => (loaded.kind = "ok" /\ loaded.rows = <<>>)

----------------------------------------------------------------------------
(* C23 *)

\* no budget line and no flow line yields a row of the master table
NoReconRows == rows(budget, flow) = <<>>

\* no revenue line and no expense line yields an alert
NoAlertRows == AlertRowsOf("Revenue", rev, threshold, 1) \o
               AlertRowsOf("Expense", exp, threshold, 1) = <<>>

\* C23 as stated: when the budget and flow tables are empty or hold no row
\* that yields an output row, build_reconciliation_master returns an empty
\* table without raising; likewise compute_variance_alerts returns an empty
\* table without raising when no line item qualifies.
C23_EmptyNotFatal ==
    /\ (pc = "viewed" /\ recon.kind # "none" /\ NoReconRows)
       => recon = [kind |-> "ok", rows |-> <<>>]
    /\ (pc = "viewed" /\ alerts.kind # "none" /\ NoAlertRows)
       => alerts = [kind |-> "ok", rows |-> <<>>]

----------------------------------------------------------------------------
(* compute_kpis: the figures of the home page.  rev and exp are the tables  *)
(* of the two reconciliation loaders; hidden is the table of               *)
(* load_hidden_cash_flows (Item, Annual Impact), which drops the rows       *)
(* without an Item and the TOTAL row.                                       *)

HiddenLine(i, a) == [item |-> i, annual |-> a]

RECURSIVE SumProposal(_)
RECURSIVE SumAnnual(_)

\* Series.sum(): the missing values are skipped, an empty sum is 0
SumProposal(tbl) ==
    IF tbl = <<>> THEN 0
    ELSE FloatOrZero(Head(tbl).proposal) + SumProposal(Tail(tbl))

SumAnnual(tbl) ==
    IF tbl = <<>> THEN 0
    ELSE FloatOrZero(Head(tbl).annual) + SumAnnual(Tail(tbl))

\* the "Total..." rows when there is one, else every row
TotalYtd(tbl) ==
    LET totals == SelectSeq(tbl, TotalLine)
    IN  IF Len(totals) = 0 THEN SumProposal(tbl) ELSE SumProposal(totals)

\* total * 12 / 7
Annualize(total) == Ratio(total * 12, 7)

\* str.contains("Bond|Techny Loan", case=False, na=False)
IsDebtService(h) ==
    h.item \in {"Bond Principal", "Bond Interest", "Techny Loan Principal",
                "Techny Loan Interest", "Bond refund"}

\* net_operating_income / debt_service if debt_service > 0 else 0
Dscr(noi, debt_service) ==
    IF debt_service > 0 THEN Num(Ratio(noi[1], noi[2] * debt_service)) ELSE Num(<<0, 1>>)

compute_kpis(rv, ex, hd) ==
    LET annual_rev == Annualize(TotalYtd(rv))
        annual_exp == Annualize(TotalYtd(ex))
        hidden_total == SumAnnual(hd)
        debt_service == SumAnnual(SelectSeq(hd, IsDebtService))
        net_operating_income == Annualize(TotalYtd(rv) - TotalYtd(ex))
    IN  [kind |-> "ok",
         rows |-> <<[total_annual_revenue |-> annual_rev,
                     total_annual_expenses |-> annual_exp,
                     net_cash_flow |-> Ratio(net_operating_income[1]
                                             - hidden_total * net_operating_income[2],
                                             net_operating_income[2]),
                     hidden_cash_outflows |-> hidden_total,
                     dscr |-> Dscr(net_operating_income, debt_service),
                     debt_service |-> debt_service,
                     net_operating_income |-> net_operating_income]>>]

\* rows of the Hidden Cash Flows sheet that are explored
MaxHiddenRows == 2

HiddenLines ==
    {HiddenLine("Bond Principal", Num(255000)),
     HiddenLine("Techny Loan Interest", Num(12800)),
     HiddenLine("Scoreboard Lease", Num(30000)),
     HiddenLine("Bond Interest", NaN),
     HiddenLine("Bond refund", Num(-5000))}

\* one more item in the Hidden Cash Flows sheet
AppendHiddenLine ==
    /\ pc = "edit"
    /\ Len(hidden) < MaxHiddenRows
    /\ \E h \in HiddenLines : hidden' = Append(hidden, h)
    /\ UNCHANGED <<kpis, pc, reconVars, alertVars, scoreVars, entryVars, dollarVars,
                   gridVars, cacheVars, termVars>>

\* the home page calls compute_kpis()
ViewKpis ==
    /\ pc = "edit"
    /\ kpis' = compute_kpis(rev, exp, hidden)
    /\ pc' = "viewed"
    /\ UNCHANGED <<hidden, reconVars, alertVars, scoreVars, entryVars, dollarVars,
                   gridVars, cacheVars, termVars>>

NextKpis == AppendRevenueLine \/ AppendExpenseLine \/ AppendHiddenLine \/ ViewKpis

SpecKpis == Init /\ [][NextKpis]_vars

----------------------------------------------------------------------------
(* C24 *)

KpisShown == pc = "viewed" /\ kpis.kind = "ok"

\* C24 as stated: every percentage or ratio short-circuits to null when its
\* denominator is zero and never raises or yields a number: the variance
\* percent when proposed = 0, the relative deviation when expected = 0, and
\* the debt service coverage ratio when debt service = 0.
C24_ZeroDenominatorIsNull ==
    /\ KpisShown => (kpis.rows[1].debt_service = 0 => isna(kpis.rows[1].dscr))
    /\ AlertsReturned =>
           \A k \in AlertIdx :
               (SheetRow(alerts.rows[k]).proposal = Num(0)
                /\ isna(SheetRow(alerts.rows[k]).pct)) => isna(alerts.rows[k].pct)

----------------------------------------------------------------------------
(* @st.cache_data: the loaders and build_reconciliation_master keep their  *)
(* return value for the life of the server process; no call clears the     *)
(* cache and no ttl is set.  A call that raises stores nothing.  cache     *)
(* holds what load_expense_reconciliation returned (budget), what          *)
(* load_expense_flow returned (flow) and what build_reconciliation_master  *)
(* returned (master), each empty before the first call.                    *)

\* load_expense_reconciliation() under the cache
CachedBudget(c, b) == IF c.budget # <<>> THEN c.budget[1] ELSE b

\* load_expense_flow() under the cache
CachedFlow(c, f) == IF c.flow # <<>> THEN c.flow[1] ELSE f

\* build_reconciliation_master() under the cache
CachedMaster(c, b, f) ==
    IF c.master # <<>> THEN c.master[1]
    ELSE build_reconciliation_master(CachedBudget(c, b), CachedFlow(c, f))

\* the Financial Overview page calls load_expense_reconciliation()
ViewFinancialOverview ==
    /\ pc = "edit"
    /\ cache' = [cache EXCEPT !.budget = <<CachedBudget(cache, budget)>>]
    /\ pc' = "overview"
    /\ UNCHANGED <<reconVars, alertVars, scoreVars, entryVars, dollarVars,
                   gridVars, termVars, kpiVars>>

\* the Reconciliation page calls build_reconciliation_master()
ViewReconciliationCached ==
    /\ pc = "edit"
    /\ recon' = CachedMaster(cache, budget, flow)
    /\ \/ /\ cache.master # <<>>
          /\ cache' = cache
       \/ /\ cache.master = <<>>
          /\ cache' = [budget |-> <<CachedBudget(cache, budget)>>,
                       flow |-> <<CachedFlow(cache, flow)>>,
                       master |-> IF recon'.kind = "ok" THEN <<recon'>> ELSE <<>>]
    /\ pc' = "viewed"
    /\ UNCHANGED <<budget, flow, alertVars, scoreVars, entryVars, dollarVars,
                   gridVars, termVars, kpiVars>>

\* the viewer leaves the page; the server process and its cache stay
Rerun ==
    /\ pc \in {"viewed", "overview"}
    /\ pc' = "edit"
    /\ UNCHANGED <<reconVars, alertVars, scoreVars, entryVars, dollarVars,
                   gridVars, cacheVars, termVars, kpiVars>>

NextCache ==
    \/ AppendBudgetLine \/ AppendFlowLine
    \/ ViewFinancialOverview \/ ViewReconciliationCached \/ Rerun

SpecCache == Init /\ [][NextCache]_vars

----------------------------------------------------------------------------
(* C25 *)

\* C25 as stated: memoization is only an optimization; each access returns
\* what a fresh recomputation from the current source tables would return.
C25_CacheIsTransparent ==
    (pc = "viewed" /\ recon.kind # "none")
    => recon = build_reconciliation_master(budget, flow)

----------------------------------------------------------------------------
(* C26 *)

\* recon["Budget Amount"].sum() of the Reconciliation page
RECURSIVE TotalBudget(_)
TotalBudget(rs) ==
    IF rs = <<>> THEN 0 ELSE Head(rs).budget_amount + TotalBudget(Tail(rs))

RECURSIVE SumChosen(_)
SumChosen(b) ==
    IF b = <<>> THEN 0 ELSE ChosenFigure(Head(b)) + SumChosen(Tail(b))

\* the budget rows that are neither blank nor "Total..." rows
LineItems(b) == SelectSeq(b, LAMBDA br : ~IsAggregateOrBlank(br.name))

\* C26 as stated: the sum of Budget Amount over all output rows equals the
\* sum, over every budget row, of that row's chosen budget figure (CSCG YTD
\* Budget, else Proposal YTD Budget, else 0).
C26_BudgetTotalConserved ==
    Returned => TotalBudget(Out) = SumChosen(budget)

\* C26 amended: the sum of Budget Amount over all output rows equals the sum
\* of the chosen budget figure over the budget rows whose stripped name is
\* not blank and does not start with "Total"; the figures of blank and
\* "Total..." rows are left out of the total.
C26_BudgetTotalOfLineItems ==
    Returned => TotalBudget(Out) = SumChosen(LineItems(budget))

\* a returned table with a many-to-one group row whose two budget rows take
\* their figure from different columns
C26_Witness ==
    /\ Returned
    /\ \E k \in OutIdx :
        /\ Len(Out[k].budget_rows) = 2
        /\ isna(budget[Out[k].budget_rows[1]].cscg)
        /\ notna(budget[Out[k].budget_rows[2]].cscg)
        /\ Out[k].budget_amount > 0

----------------------------------------------------------------------------
(* C27 *)

\* the budget table has pairwise distinct line-item names and the flow
\* table has pairwise distinct category names, surrounding blanks aside
DistinctNames ==
    /\ \A i, k \in 1..Len(budget) : i # k => Strip(budget[i].name) # Strip(budget[k].name)
    /\ \A j, k \in 1..Len(flow) : j # k => Strip(flow[j].category) # Strip(flow[k].category)

\* C27 as stated: when the budget table has pairwise distinct line-item
\* names and the flow table has pairwise distinct category names, no two
\* returned rows have the same Line Item label.
C27_LabelIsKey ==
    (Returned /\ DistinctNames)
    => \A k, m \in OutIdx : k # m => Out[k].line_item # Out[m].line_item

----------------------------------------------------------------------------
(* check_compliance on its own: one row of the contract table, with any     *)
(* "6mo Expected" and "6mo Actual", amounts in cents                        *)

ContractRow(e, a) == [expected |-> e, actual |-> a]

ExpectedAmounts ==
    {None, Num(-Dollars(21000)), Num(-100), Num(-1), Num(0), Num(1), Num(100),
     Num(Dollars(21000))}

ActualAmounts ==
    {-Dollars(21000), -100, -1, 0, 1, 98, 100, 102, 103, 110, 111,
     Dollars(21000), Dollars(21420), Dollars(25000)}

\* a contract row is filled in
SetTerm ==
    /\ pc = "edit"
    /\ \E e \in ExpectedAmounts, a \in ActualAmounts : term' = ContractRow(e, a)
    /\ UNCHANGED <<status, pc, reconVars, alertVars, scoreVars, entryVars, dollarVars,
                   gridVars, cacheVars, kpiVars>>

\* df.apply(check_compliance, axis=1) on that row
CheckTerm ==
    /\ pc = "edit"
    /\ status' = check_compliance(term)
    /\ pc' = "viewed"
    /\ UNCHANGED <<term, reconVars, alertVars, scoreVars, entryVars, dollarVars,
                   gridVars, cacheVars, kpiVars>>

NextTerm == SetTerm \/ CheckTerm

SpecTerm == Init /\ [][NextTerm]_vars

----------------------------------------------------------------------------
(* C28 *)

TermChecked == pc = "viewed" /\ status # "none"

\* C28: a contract row whose expected amount is present but zero or negative
\* is COMPLIANT whatever its actual amount.
C28_NonPositiveExpectedCompliant ==
    (TermChecked /\ notna(term.expected) /\ term.expected[1] <= 0)
    => status = "COMPLIANT"

\* a checked row with a negative expected amount and an actual amount far
\* from it
C28_Witness ==
    /\ TermChecked
    /\ term.expected = Num(-100)
    /\ term.actual = Dollars(25000)
    /\ status = "COMPLIANT"

----------------------------------------------------------------------------
(* C29 *)

\* the retained rows of the journal entry that line i belongs to, down to
\* line i: from the nearest row at or above i with a Num of its own
EntryRowsAbove(i) == Max(Donors(i, "num"))..i

\* C29 as stated: forward-fill never mixes journal entries: the Date and
\* Memo a row carries come from the same entry as the Num it carries; a Date
\* or Memo is never propagated into a row of a later entry whose first row
\* has its own Num but a blank Date or Memo.
C29_NoMixing ==
    EntriesReturned =>
        \A i \in EntryIdx : \A field \in {"date", "memo"} :
            Donors(i, "num") # {} =>
                \/ Got(i, field) = Shown(NaN, field)
                \/ \E j \in EntryRowsAbove(i) :
                       notna(Raw(j, field)) /\ Got(i, field) = Shown(Raw(j, field), field)

----------------------------------------------------------------------------
(* C30 *)

\* what the page shows when the slider stands at t, over the same sheets
AlertsAt(t) == compute_variance_alerts(rev, exp, t)

\* the line items of a result, and those of one severity
ItemsOf(res) == {res.rows[k].src_row : k \in 1..Len(res.rows)}
ItemsOfSeverity(res, sev) ==
    {res.rows[k].src_row : k \in {m \in 1..Len(res.rows) : res.rows[m].severity = sev}}

\* C30: over the same source tables, the result at any other threshold has
\* the same line items and the same RED items as the one shown; an item that
\* is YELLOW at a threshold is YELLOW at every lower threshold; and the
\* result lists all RED rows before all YELLOW rows before all GREEN rows.
C30_ThresholdMovesYellowGreenOnly ==
    (pc = "viewed" /\ alerts.kind # "none") =>
        /\ \A t \in Thresholds :
            /\ AlertsAt(t).kind = alerts.kind
            /\ ItemsOf(AlertsAt(t)) = ItemsOf(alerts)
            /\ ItemsOfSeverity(AlertsAt(t), "RED") = ItemsOfSeverity(alerts, "RED")
            /\ t <= threshold =>
                   ItemsOfSeverity(alerts, "YELLOW") \subseteq ItemsOfSeverity(AlertsAt(t), "YELLOW")
            /\ t >= threshold =>
                   ItemsOfSeverity(AlertsAt(t), "YELLOW") \subseteq ItemsOfSeverity(alerts, "YELLOW")
        /\ \A k, m \in AlertIdx :
               k < m => SevRank(alerts.rows[k].severity) >= SevRank(alerts.rows[m].severity)

\* a result at 1% with a YELLOW row below a RED row, whose YELLOW item is
\* GREEN at 25%
C30_Witness ==
    /\ AlertsReturned
    /\ threshold = 1
    /\ Len(alerts.rows) = 2
    /\ alerts.rows[1].severity = "RED"
    /\ alerts.rows[2].severity = "YELLOW"
    /\ alerts.rows[2].src_row \in ItemsOfSeverity(AlertsAt(25), "GREEN")
    /\ alerts.rows[1].src_row[2] > alerts.rows[2].src_row[2]

====
